---- MODULE Spec2Model ----
(***************************************************************************)
(* Gateway layer of lista-compras-microservices (api-gateway/server.js):   *)
(* per-service circuit breaker, prefix routed proxy with path rewriting,   *)
(* and the shared service registry it consults; and list-service           *)
(* (services/list-service/server.js), the backend that keeps each user's   *)
(* shopping lists.                                                         *)
(*                                                                         *)
(* Strings that the code cuts and glues (URLs) are sequences of symbols:   *)
(* one symbol per path character, one symbol per query parameter           *)
(* ("limit=5"), and "?" / "&" for the separators.                          *)
(***************************************************************************)
EXTENDS Integers, Sequences, FiniteSets, Bags, TLC

VARIABLES circuitBreakers, now, registry, inflight, last, issued, blocking, agg,
          health, listService

vars == <<circuitBreakers, now, registry, inflight, last, issued, blocking, agg,
          health, listService>>

----------------------------------------------------------------------------
(* Bounds of the model *)

MaxReq == 2
MaxIssued == 5
MaxTicks == 1

----------------------------------------------------------------------------
(* Program constants *)

FailureThreshold == 3
CooldownMs == 30000

Services == {"user-service", "item-service", "list-service"}

routeTable ==
  << [prefix |-> <<"/","a","p","i","/","a","u","t","h">>,
      service |-> "user-service",
      strip |-> <<"/","a","p","i","/","a","u","t","h">>,
      forwardBase |-> <<"/","a","u","t","h">>],
     [prefix |-> <<"/","a","p","i","/","u","s","e","r","s">>,
      service |-> "user-service",
      strip |-> <<"/","a","p","i","/","u","s","e","r","s">>,
      forwardBase |-> <<"/","u","s","e","r","s">>],
     [prefix |-> <<"/","a","p","i","/","i","t","e","m","s">>,
      service |-> "item-service",
      strip |-> <<"/","a","p","i","/","i","t","e","m","s">>,
      forwardBase |-> <<"/","i","t","e","m","s">>],
     [prefix |-> <<"/","a","p","i","/","l","i","s","t","s">>,
      service |-> "list-service",
      strip |-> <<"/","a","p","i","/","l","i","s","t","s">>,
      forwardBase |-> <<"/","l","i","s","t","s">>] >>

Entries == DOMAIN routeTable

BodyMethods == {"POST", "PUT", "PATCH"}

\* the headers deleted from the forwarded copy of req.headers
DroppedHeaders == {"host", "content-length"}

----------------------------------------------------------------------------
(* String helpers (JavaScript String semantics on symbol sequences) *)

startsWith(s, p) ==
  /\ Len(p) <= Len(s)
  /\ SubSeq(s, 1, Len(p)) = p

\* position of the first occurrence of p in s, 0 when there is none
indexOf(s, p) ==
  LET hits == {i \in 1..(Len(s) - Len(p) + 1) : SubSeq(s, i, i + Len(p) - 1) = p}
  IN IF Len(p) = 0 THEN 1
     ELSE IF hits = {} THEN 0
     ELSE CHOOSE i \in hits : \A j \in hits : i <= j

\* s.replace(p, ''): removes the first occurrence of p only
replaceFirst(s, p) ==
  LET i == indexOf(s, p)
  IN IF i = 0 THEN s
     ELSE SubSeq(s, 1, i - 1) \o SubSeq(s, i + Len(p), Len(s))

RECURSIVE joinAmp(_)
joinAmp(ps) ==
  IF Len(ps) = 0 THEN <<>>
  ELSE IF Len(ps) = 1 THEN <<ps[1]>>
  ELSE <<ps[1], "&">> \o joinAmp(Tail(ps))

\* req.originalUrl: path, then "?" and the query string when there is one
originalUrl(req) ==
  IF Len(req.query) = 0 THEN req.path
  ELSE req.path \o <<"?">> \o joinAmp(req.query)

----------------------------------------------------------------------------
(* Circuit breaker: this.circuitBreakers is a Map serviceName -> record;   *)
(* a service without a record is not in the DOMAIN.                        *)

NewBreaker == [failures |-> 0, isOpen |-> FALSE, isHalfOpen |-> FALSE, lastFailure |-> 0]

\* variant: the cool-down test is ">=" instead of ">"
isCircuitOpen_AtCooldown(cb, serviceName, t) ==
  IF serviceName \notin DOMAIN cb THEN [ret |-> FALSE, cb |-> cb]
  ELSE LET b == cb[serviceName]
       IN IF b.isOpen /\ t - b.lastFailure >= CooldownMs
          THEN [ret |-> FALSE,
                cb |-> [cb EXCEPT ![serviceName] =
                          [b EXCEPT !.isOpen = FALSE, !.isHalfOpen = TRUE]]]
          ELSE [ret |-> b.isOpen, cb |-> cb]

\* variant: after the cool-down the half-open flag is set but the open flag
\* is left as it was
isCircuitOpen_KeepsOpen(cb, serviceName, t) ==
  IF serviceName \notin DOMAIN cb THEN [ret |-> FALSE, cb |-> cb]
  ELSE LET b == cb[serviceName]
       IN IF b.isOpen /\ t - b.lastFailure > CooldownMs
          THEN [ret |-> FALSE,
                cb |-> [cb EXCEPT ![serviceName] = [b EXCEPT !.isHalfOpen = TRUE]]]
          ELSE [ret |-> b.isOpen, cb |-> cb]

\* the gate check: the value returned and the map after its side effect
isCircuitOpen(cb, serviceName, t) ==
  IF serviceName \notin DOMAIN cb THEN [ret |-> FALSE, cb |-> cb]
  ELSE LET b == cb[serviceName]
       IN IF b.isOpen /\ t - b.lastFailure > CooldownMs
          THEN [ret |-> FALSE,
                cb |-> [cb EXCEPT ![serviceName] =
                          [b EXCEPT !.isOpen = FALSE, !.isHalfOpen = TRUE]]]
          ELSE [ret |-> b.isOpen, cb |-> cb]

\* variant: opens only after the threshold has been exceeded
recordFailure_OffByOne(cb, serviceName, t) ==
  LET b0 == IF serviceName \in DOMAIN cb THEN cb[serviceName] ELSE NewBreaker
      b1 == [b0 EXCEPT !.failures = @ + 1, !.lastFailure = t]
      b2 == IF b1.failures > FailureThreshold
            THEN [b1 EXCEPT !.isOpen = TRUE, !.isHalfOpen = FALSE]
            ELSE b1
  IN [x \in (DOMAIN cb) \cup {serviceName} |-> IF x = serviceName THEN b2 ELSE cb[x]]

\* variant: opens only when the count is exactly the threshold
recordFailure_ExactThreshold(cb, serviceName, t) ==
  LET b0 == IF serviceName \in DOMAIN cb THEN cb[serviceName] ELSE NewBreaker
      b1 == [b0 EXCEPT !.failures = @ + 1, !.lastFailure = t]
      b2 == IF b1.failures = FailureThreshold
            THEN [b1 EXCEPT !.isOpen = TRUE, !.isHalfOpen = FALSE]
            ELSE b1
  IN [x \in (DOMAIN cb) \cup {serviceName} |-> IF x = serviceName THEN b2 ELSE cb[x]]

\* variant: counts the failure but does not stamp its time
recordFailure_NoTimestamp(cb, serviceName, t) ==
  LET b0 == IF serviceName \in DOMAIN cb THEN cb[serviceName] ELSE NewBreaker
      b1 == [b0 EXCEPT !.failures = @ + 1]
      b2 == IF b1.failures >= FailureThreshold
            THEN [b1 EXCEPT !.isOpen = TRUE, !.isHalfOpen = FALSE]
            ELSE b1
  IN [x \in (DOMAIN cb) \cup {serviceName} |-> IF x = serviceName THEN b2 ELSE cb[x]]

\* variant: the count stops at the threshold
recordFailure_Capped(cb, serviceName, t) ==
  LET b0 == IF serviceName \in DOMAIN cb THEN cb[serviceName] ELSE NewBreaker
      b1 == [b0 EXCEPT !.failures = IF @ < FailureThreshold THEN @ + 1 ELSE @,
                       !.lastFailure = t]
      b2 == IF b1.failures >= FailureThreshold
            THEN [b1 EXCEPT !.isOpen = TRUE, !.isHalfOpen = FALSE]
            ELSE b1
  IN [x \in (DOMAIN cb) \cup {serviceName} |-> IF x = serviceName THEN b2 ELSE cb[x]]

recordFailure(cb, serviceName, t) ==
  LET b0 == IF serviceName \in DOMAIN cb THEN cb[serviceName] ELSE NewBreaker
      b1 == [b0 EXCEPT !.failures = @ + 1, !.lastFailure = t]
      b2 == IF b1.failures >= FailureThreshold
            THEN [b1 EXCEPT !.isOpen = TRUE, !.isHalfOpen = FALSE]
            ELSE b1
  IN [x \in (DOMAIN cb) \cup {serviceName} |-> IF x = serviceName THEN b2 ELSE cb[x]]

\* variant: resets the count and the open flag but leaves the half-open flag
resetCircuitBreaker_KeepHalfOpen(cb, serviceName) ==
  IF serviceName \in DOMAIN cb
  THEN [cb EXCEPT ![serviceName] = [@ EXCEPT !.failures = 0, !.isOpen = FALSE]]
  ELSE cb

\* variant: clears the flags but keeps the count
resetCircuitBreaker_FlagsOnly(cb, serviceName) ==
  IF serviceName \in DOMAIN cb
  THEN [cb EXCEPT ![serviceName] = [@ EXCEPT !.isOpen = FALSE, !.isHalfOpen = FALSE]]
  ELSE cb

\* variant: a success on a service without a record stores a fresh record
resetCircuitBreaker_Creates(cb, serviceName) ==
  [x \in (DOMAIN cb) \cup {serviceName} |->
     IF x = serviceName
     THEN [(IF x \in DOMAIN cb THEN cb[x] ELSE NewBreaker)
             EXCEPT !.failures = 0, !.isOpen = FALSE, !.isHalfOpen = FALSE]
     ELSE cb[x]]

resetCircuitBreaker(cb, serviceName) ==
  IF serviceName \in DOMAIN cb
  THEN [cb EXCEPT ![serviceName] =
          [@ EXCEPT !.failures = 0, !.isOpen = FALSE, !.isHalfOpen = FALSE]]
  ELSE cb

\* the three states the two flags encode
BreakerState(cb, s) ==
  IF s \notin DOMAIN cb THEN "Closed"
  ELSE IF cb[s].isOpen THEN "Open"
  ELSE IF cb[s].isHalfOpen THEN "HalfOpen"
  ELSE "Closed"

----------------------------------------------------------------------------
(* Service registry (shared/serviceRegistry.js): name -> record            *)

discoverOk(reg, serviceName) == serviceName \in DOMAIN reg

listServices(reg) == DOMAIN reg

----------------------------------------------------------------------------
(* proxyByEntry, up to its await                                           *)

\* variant: only statuses below 400 resolve
validateStatus_Below400(status) == status < 400

\* axios validateStatus: which statuses resolve the promise
validateStatus(status) == status < 500

\* variant: the registry is consulted before the gate
proxyDecide_DiscoverFirst(cb, reg, serviceName, t) ==
  LET found == discoverOk(reg, serviceName)
      g == isCircuitOpen(cb, serviceName, t)
  IN IF ~found
     THEN [cb |-> cb, kind |-> "not_found", lookups |-> 2]
     ELSE IF g.ret
          THEN [cb |-> g.cb, kind |-> "circuit_open", lookups |-> 1]
          ELSE [cb |-> g.cb, kind |-> "forward", lookups |-> 1]

\* variant: a failed discovery falls into the handler's catch block and is
\* counted as a failure of the service
proxyDecide_DiscoveryCounts(cb, reg, serviceName, t) ==
  LET g == isCircuitOpen(cb, serviceName, t)
  IN IF g.ret
     THEN [cb |-> g.cb, kind |-> "circuit_open", lookups |-> 0]
     ELSE IF ~discoverOk(reg, serviceName)
          THEN [cb |-> recordFailure(g.cb, serviceName, t), kind |-> "not_found",
                lookups |-> 2]
          ELSE [cb |-> g.cb, kind |-> "forward", lookups |-> 1]

\* gate check, then discovery: what the handler decides before any await
proxyDecide(cb, reg, serviceName, t) ==
  LET g == isCircuitOpen(cb, serviceName, t)
  IN IF g.ret
     THEN [cb |-> g.cb, kind |-> "circuit_open", lookups |-> 0]
     ELSE IF ~discoverOk(reg, serviceName)
          THEN [cb |-> g.cb, kind |-> "not_found", lookups |-> 2]
          ELSE [cb |-> g.cb, kind |-> "forward", lookups |-> 1]

\* the path rewrite: lines "let suffix = ..." to "const targetPath = ..."
targetPath(entry, url) ==
  LET s0 == replaceFirst(url, entry.strip)
      s1 == IF ~startsWith(s0, <<"/">>) THEN <<"/">> \o s0 ELSE s0
      s2 == IF s1 = <<"/">> \/ s1 = <<>> THEN <<>> ELSE s1
  IN entry.forwardBase \o s2

\* axios appends config.params to config.url: "?" when the url has none yet,
\* "&" otherwise
buildURL(url, params) ==
  IF Len(params) = 0 THEN url
  ELSE url \o (IF indexOf(url, <<"?">>) = 0 THEN <<"?">> ELSE <<"&">>) \o joinAmp(params)

\* the request config handed to axios; the service's base url is left symbolic
\* (the target is service.url followed by config.url)
\* variant: only the host header is deleted from the copy
proxyConfig_KeepContentLength(entry, req) ==
  [method |-> req.method,
   url |-> targetPath(entry, originalUrl(req)),
   headers |-> [h \in (DOMAIN req.headers) \ {"host"} |-> req.headers[h]],
   params |-> req.query,
   data |-> IF req.method \in BodyMethods THEN req.body ELSE "none"]

proxyConfig(entry, req) ==
  [method |-> req.method,
   url |-> targetPath(entry, originalUrl(req)),
   headers |-> [h \in (DOMAIN req.headers) \ DroppedHeaders |-> req.headers[h]],
   params |-> req.query,
   data |-> IF req.method \in BodyMethods THEN req.body ELSE "none"]

\* the URL that goes on the wire
wireUrl(config) == buildURL(config.url, config.params)

----------------------------------------------------------------------------
(* Aggregate endpoints: callService and getDashboard                       *)
(* JSON values are tagged: an array carries its elements, an object its    *)
(* fields, so that Array.isArray, ".data || value" and ".slice" behave as  *)
(* they do on the values the backends send.                                *)

jsArray(xs) == [type |-> "array", elems |-> xs]
jsObject(f) == [type |-> "object", fields |-> f]

isArray(v) == v.type = "array"

\* value.data || value, on a parsed JSON object (an array is truthy)
dataOrSelf(v) ==
  IF v.type = "object" /\ "data" \in DOMAIN v.fields THEN v.fields.data ELSE v

\* Array.prototype.slice(0, n)
slice(v, n) ==
  jsArray(SubSeq(v.elems, 1, IF Len(v.elems) < n THEN Len(v.elems) ELSE n))

\* the envelope of a backend's successful answer: { success: true, data: [...] }
ArrayEnvelope(xs) == jsObject([success |-> TRUE, data |-> jsArray(xs)])

\* the envelope of a backend's refusal: { success: false, message } (no data)
ErrorEnvelope(msg) == jsObject([success |-> FALSE, message |-> msg])

DashboardSampleSize == 5

\* validateStatus of the aggregate call
callValidateStatus(s) == s < 500

\* callService up to its await: discovery, then the request is on its way.
\* When discovery throws, the async function's promise is rejected and no
\* request is made.
callService(reg, serviceName, path, method, authHeader, params) ==
  [service |-> serviceName, path |-> path, method |-> method,
   headers |-> [h \in (IF authHeader = "none" THEN {} ELSE {"Authorization"})
                  |-> authHeader],
   params |-> IF method = "GET" /\ Len(params) > 0 THEN params ELSE << >>,
   lookups |-> 1,
   calls |-> IF discoverOk(reg, serviceName) THEN 1 ELSE 0,
   state |-> IF discoverOk(reg, serviceName) THEN "pending" ELSE "rejected",
   reason |-> IF discoverOk(reg, serviceName) THEN "none" ELSE "discovery",
   value |-> jsArray(<< >>)]

\* variant: a call of a branch that ended in a failure is repeated once
callSettle_Retry(b, o) ==
  IF o.type = "response" /\ callValidateStatus(o.status)
  THEN [b EXCEPT !.state = "fulfilled", !.value = o.body]
  ELSE IF b.calls < 2
       THEN [b EXCEPT !.calls = @ + 1]
       ELSE [b EXCEPT !.state = "rejected",
                      !.reason = IF o.type = "response" THEN "http5xx" ELSE o.code]

\* callService after its await: resp.data on a status below 500, a rejection
\* on a status of 500 or above and on every transport error
callSettle(b, o) ==
  IF o.type = "response" /\ callValidateStatus(o.status)
  THEN [b EXCEPT !.state = "fulfilled", !.value = o.body]
  ELSE [b EXCEPT !.state = "rejected",
                 !.reason = IF o.type = "response" THEN "http5xx" ELSE o.code]

\* variant: Authorization travels on all three calls
dashboardCalls_AuthEverywhere(reg, authHeader) ==
  << callService(reg, "list-service", <<"/", "l", "i", "s", "t", "s">>, "GET",
                 authHeader, <<"limit=50">>),
     callService(reg, "item-service", <<"/", "i", "t", "e", "m", "s">>, "GET",
                 authHeader, <<"limit=10">>),
     callService(reg, "item-service", <<"/", "c", "a", "t", "e", "g", "o", "r", "i", "e", "s">>,
                 "GET", authHeader, << >>) >>

\* the three calls getDashboard hands to Promise.allSettled
dashboardCalls(reg, authHeader) ==
  << callService(reg, "list-service", <<"/", "l", "i", "s", "t", "s">>, "GET",
                 authHeader, <<"limit=50">>),
     callService(reg, "item-service", <<"/", "i", "t", "e", "m", "s">>, "GET",
                 "none", <<"limit=10">>),
     callService(reg, "item-service", <<"/", "c", "a", "t", "e", "g", "o", "r", "i", "e", "s">>,
                 "GET", "none", << >>) >>

\* the values a summary field can hold in a stored list document. Amounts
\* of money are counted in thousandths of the currency unit, so that
\* toFixed(2) has something to round.
jsNumber(n) == [type |-> "number", num |-> n]
jsString(cs) == [type |-> "string", chars |-> cs]
jsNull == [type |-> "null"]

DigitChars == {"0", "1", "2", "3", "4", "5", "6", "7", "8", "9"}

digitValue(c) ==
  CASE c = "0" -> 0 [] c = "1" -> 1 [] c = "2" -> 2 [] c = "3" -> 3 [] c = "4" -> 4
    [] c = "5" -> 5 [] c = "6" -> 6 [] c = "7" -> 7 [] c = "8" -> 8 [] c = "9" -> 9

RECURSIVE parseDigits(_, _)
parseDigits(cs, acc) ==
  IF Len(cs) = 0 THEN acc ELSE parseDigits(Tail(cs), 10 * acc + digitValue(cs[1]))

\* Number(x) of a field x of the record s, in the unit the field is counted
\* in: a number is itself, a string of digits is parsed (the empty string
\* is 0), null is 0, anything else - a missing field too - is NaN
toNumber(s, f, unit) ==
  IF f \notin DOMAIN s
  THEN [nan |-> TRUE, num |-> 0]
  ELSE CASE s[f].type = "number" -> [nan |-> FALSE, num |-> s[f].num]
         [] s[f].type = "string" ->
              IF \A i \in 1..Len(s[f].chars) : s[f].chars[i] \in DigitChars
              THEN [nan |-> FALSE, num |-> unit * parseDigits(s[f].chars, 0)]
              ELSE [nan |-> TRUE, num |-> 0]
         [] s[f].type = "null" -> [nan |-> FALSE, num |-> 0]

\* variant: only fields that already are numbers count
numberOrZero_NumbersOnly(s, f, unit) ==
  IF f \in DOMAIN s /\ s[f].type = "number" THEN s[f].num ELSE 0

\* Number(x) || 0
numberOrZero(s, f, unit) ==
  IF toNumber(s, f, unit).nan THEN 0 ELSE toNumber(s, f, unit).num

\* Number(x.toFixed(2)) on an amount in thousandths: the nearest hundredth
toFixed2(x) == ((x + 5) \div 10) * 10

\* the sum of one summary field over the lists; a list without a summary
\* counts as { totalItems: 0, purchasedItems: 0, estimatedTotal: 0 }
RECURSIVE sumSummary(_, _)
sumSummary(ls, f) ==
  IF Len(ls) = 0
  THEN 0
  ELSE (IF "summary" \in DOMAIN ls[1]
        THEN numberOrZero(ls[1].summary, f, IF f = "estimatedTotal" THEN 1000 ELSE 1)
        ELSE 0)
         + sumSummary(Tail(ls), f)

\* what a settled branch contributes: value.data || value, or [] if rejected
settledData(b) ==
  IF b.state = "fulfilled" THEN dataOrSelf(b.value) ELSE jsArray(<< >>)

\* variant: a rejected branch fails the whole request (Promise.all)
getDashboardRespond_FailFast(branches, reg) ==
  LET lists == settledData(branches[1])
      items == settledData(branches[2])
      categories == settledData(branches[3])
  IN IF ~isArray(lists) \/ \E i \in 1..3 : branches[i].state = "rejected"
     THEN [status |-> 500,
           body |-> [success |-> FALSE, message |-> "Erro ao agregar dashboard"]]
     ELSE [status |-> 200,
           body |-> [success |-> TRUE,
                     services |-> listServices(reg),
                     lists |-> [totalLists |-> Len(lists.elems),
                                totalItems |-> sumSummary(lists.elems, "totalItems"),
                                purchasedItems |-> sumSummary(lists.elems, "purchasedItems"),
                                estimatedTotal |-> toFixed2(sumSummary(lists.elems,
                                                                       "estimatedTotal")),
                                sample |-> slice(lists, DashboardSampleSize)],
                     catalog |-> [sampleItems |-> IF isArray(items)
                                                  THEN slice(items, DashboardSampleSize)
                                                  ELSE items,
                                  categories |-> categories]]]

\* getDashboard after Promise.allSettled: the totals are computed only when
\* lists is an array, but lists.slice is called whatever lists is, and on an
\* object that is a TypeError, which the catch block answers with 500
getDashboardRespond(branches, reg) ==
  LET lists == settledData(branches[1])
      items == settledData(branches[2])
      categories == settledData(branches[3])
  IN IF ~isArray(lists)
     THEN [status |-> 500,
           body |-> [success |-> FALSE, message |-> "Erro ao agregar dashboard"]]
     ELSE [status |-> 200,
           body |-> [success |-> TRUE,
                     services |-> listServices(reg),
                     lists |-> [totalLists |-> Len(lists.elems),
                                totalItems |-> sumSummary(lists.elems, "totalItems"),
                                purchasedItems |-> sumSummary(lists.elems, "purchasedItems"),
                                estimatedTotal |-> toFixed2(sumSummary(lists.elems,
                                                                       "estimatedTotal")),
                                sample |-> slice(lists, DashboardSampleSize)],
                     catalog |-> [sampleItems |-> IF isArray(items)
                                                  THEN slice(items, DashboardSampleSize)
                                                  ELSE items,
                                  categories |-> categories]]]

----------------------------------------------------------------------------
(* Aggregate endpoints: globalSearch. Names and the query are sequences of *)
(* characters.                                                             *)

\* String.prototype.toLowerCase, character by character
lowerChar(c) ==
  CASE c = "A" -> "a" [] c = "B" -> "b" [] c = "C" -> "c" [] OTHER -> c

\* variant: the text is compared as it is written
toLowerCase_AsWritten(cs) == cs

toLowerCase(cs) == [i \in 1..Len(cs) |-> lowerChar(cs[i])]

\* String.prototype.includes
includes(cs, term) == indexOf(cs, term) # 0

\* Array.prototype.filter
RECURSIVE filter(_, _)
filter(xs, term) ==
  IF Len(xs) = 0
  THEN << >>
  ELSE LET l == xs[1]
           name == IF "name" \in DOMAIN l THEN l.name ELSE << >>
           items == IF "items" \in DOMAIN l THEN l.items ELSE << >>
           nameHit == includes(toLowerCase(name), term)
           itemHit == \E k \in 1..Len(items) :
                        includes(toLowerCase(IF "itemName" \in DOMAIN items[k]
                                             THEN items[k].itemName
                                             ELSE << >>), term)
       IN (IF nameHit \/ itemHit THEN <<l>> ELSE << >>) \o filter(Tail(xs), term)

\* the lists of the caller that match the query
listMatches(lists, q) == filter(lists, toLowerCase(q))

\* item-service's answer to /search: { success, data: { query, results, total } }
SearchEnvelope(q, rs) ==
  jsObject([success |-> TRUE,
            data |-> jsObject([query |-> q, results |-> jsArray(rs), total |-> Len(rs)])])

\* value?.data?.results || value?.data || value?.results || []
itemResultsOf(v) ==
  IF "data" \in DOMAIN v.fields
  THEN IF v.fields.data.type = "object" /\ "results" \in DOMAIN v.fields.data.fields
       THEN v.fields.data.fields.results
       ELSE v.fields.data
  ELSE IF "results" \in DOMAIN v.fields
       THEN v.fields.results
       ELSE jsArray(<< >>)

\* Array.isArray(value?.data) ? value.data : value
listsOf(v) ==
  IF "data" \in DOMAIN v.fields /\ isArray(v.fields.data) THEN v.fields.data ELSE v

SearchItemsLimit == 20
SearchListsLimit == 10

\* variant: the lists call is made for every request
searchCalls_AlwaysLists(reg, q, authHeader) ==
  << callService(reg, "item-service", <<"/", "s", "e", "a", "r", "c", "h">>, "GET",
                 "none", <<[name |-> "q", value |-> q]>>),
     callService(reg, "list-service", <<"/", "l", "i", "s", "t", "s">>, "GET",
                 authHeader, <<"limit=100">>) >>

\* the calls globalSearch hands to Promise.allSettled
searchCalls(reg, q, authHeader) ==
  << callService(reg, "item-service", <<"/", "s", "e", "a", "r", "c", "h">>, "GET",
                 "none", <<[name |-> "q", value |-> q]>>) >>
    \o (IF authHeader # "none"
        THEN << callService(reg, "list-service", <<"/", "l", "i", "s", "t", "s">>, "GET",
                            authHeader, <<"limit=100">>) >>
        ELSE << >>)

\* globalSearch after Promise.allSettled. itemResults.slice and
\* (lists || []).filter are called whatever the values are: on an object
\* either is a TypeError, which the catch block answers with 500
globalSearchRespond(branches, q) ==
  LET itemResults == IF branches[1].state = "fulfilled"
                     THEN itemResultsOf(branches[1].value)
                     ELSE jsArray(<< >>)
      hasLists == Len(branches) > 1 /\ branches[2].state = "fulfilled"
      lists == IF hasLists THEN listsOf(branches[2].value) ELSE jsArray(<< >>)
  IN IF ~isArray(lists) \/ ~isArray(itemResults)
     THEN [status |-> 500,
           body |-> [success |-> FALSE, message |-> "Erro na busca global"]]
     ELSE LET matches == jsArray(listMatches(lists.elems, q))
          IN [status |-> 200,
              body |-> [success |-> TRUE,
                        query |-> q,
                        items |-> [total |-> Len(itemResults.elems),
                                   results |-> slice(itemResults, SearchItemsLimit)],
                        lists |-> [total |-> Len(matches.elems),
                                   results |-> slice(matches, SearchListsLimit)]]]

NoAggResponse == [status |-> 0, body |-> [success |-> FALSE, message |-> "none"]]

IdleAggregate ==
  [pc |-> "idle", kind |-> "none", auth |-> "none", q |-> << >>,
   branches |-> << >>, resp |-> NoAggResponse]

----------------------------------------------------------------------------
(* list-service (services/list-service/server.js): the lists of each user, *)
(* kept in a JsonDatabase collection. The collection is a function from    *)
(* document id to document; what findById, find and update hand back are   *)
(* copies of the stored documents, the stored ones change only through     *)
(* create, update and delete.                                              *)

Users == {"u1", "u2"}

\* the Authorization header of a request: its scheme, and for the token
\* whether jwt.verify accepts it and the id in its payload
NoAuthorization == [scheme |-> "none", valid |-> FALSE, id |-> "none"]

Bearer(u) == [scheme |-> "Bearer", valid |-> TRUE, id |-> u]

ListAuthHeaders ==
  {NoAuthorization, [scheme |-> "Bearer", valid |-> FALSE, id |-> "u1"]}
    \cup {Bearer(u) : u \in Users}

\* authMiddleware: 401 without a Bearer header or with a token jwt.verify
\* rejects, otherwise req.user is the token's payload
authMiddleware(authHeader) ==
  IF authHeader.scheme # "Bearer"
  THEN [ok |-> FALSE, status |-> 401, user |-> "none"]
  ELSE IF ~authHeader.valid
       THEN [ok |-> FALSE, status |-> 401, user |-> "none"]
       ELSE [ok |-> TRUE, status |-> 0, user |-> authHeader.id]

\* what findById hands back when there is no such document
NoList == [id |-> 0]

\* variant: only a missing list is turned away
ensureOwnership_AnyUser(list, userId) == list # NoList

\* ensureOwnership: TRUE when it returns, FALSE when it throws (status 404)
ensureOwnership(list, userId) == list # NoList /\ list.userId = userId

jsBool(b) == [type |-> "boolean", bool |-> b]

\* Boolean(x)
toBoolean(v) ==
  CASE v.type = "boolean" -> v.bool
    [] v.type = "number" -> v.num # 0
    [] v.type = "string" -> Len(v.chars) > 0
    [] v.type = "null" -> FALSE

RECURSIVE sumEntries(_)
sumEntries(items) ==
  IF Len(items) = 0 THEN 0
  ELSE items[1].quantity * items[1].estimatedPrice + sumEntries(Tail(items))

\* variant: the purchased count is the count of all entries
recalcSummary_CountsAll(items) ==
  [totalItems |-> Len(items),
   purchasedItems |-> Len(items),
   estimatedTotal |-> toFixed2(sumEntries(items))]

\* recalcSummary: the summary of an items array (quantities are whole
\* numbers, prices are in thousandths of the currency unit)
recalcSummary(items) ==
  [totalItems |-> Len(items),
   purchasedItems |-> Cardinality({i \in DOMAIN items : items[i].purchased}),
   estimatedTotal |-> toFixed2(sumEntries(items))]

\* JsonDatabase: one collection
findById(db, id) == IF id \in DOMAIN db THEN db[id] ELSE NoList

create(db, doc, t) ==
  LET stored == [f \in (DOMAIN doc) \cup {"updatedAt"} |->
                   IF f = "updatedAt" THEN t ELSE doc[f]]
  IN [db |-> [x \in (DOMAIN db) \cup {doc.id} |->
                IF x = doc.id THEN stored ELSE db[x]],
      ret |-> stored]

\* update(id, updates): the named fields of the stored document are
\* replaced; null when there is no such document
update(db, id, updates, t) ==
  IF id \notin DOMAIN db
  THEN [db |-> db, ret |-> NoList]
  ELSE LET stored == [f \in DOMAIN db[id] |->
                        IF f = "updatedAt" THEN t
                        ELSE IF f \in DOMAIN updates THEN updates[f]
                        ELSE db[id][f]]
       IN [db |-> [db EXCEPT ![id] = stored], ret |-> stored]

delete(db, id) == [x \in (DOMAIN db) \ {id} |-> db[x]]

\* the documents whose fields equal the filter's
matching(db, flt) ==
  {x \in DOMAIN db : \A f \in DOMAIN flt : db[x][f] = flt[f]}

count(db, flt) == Cardinality(matching(db, flt))

\* sort: { updatedAt: -1 }
RECURSIVE sortByUpdatedAt(_, _)
sortByUpdatedAt(db, ids) ==
  IF ids = {} THEN << >>
  ELSE LET x == CHOOSE y \in ids : \A z \in ids : db[z].updatedAt <= db[y].updatedAt
       IN <<db[x]>> \o sortByUpdatedAt(db, ids \ {x})

\* find(filter, { skip, limit, sort })
find(db, flt, skip, limit) ==
  LET all == sortByUpdatedAt(db, matching(db, flt))
      to == IF skip + limit < Len(all) THEN skip + limit ELSE Len(all)
  IN SubSeq(all, skip + 1, to)

\* parseInt of a query parameter that is a string of digits
parseInt(cs) == parseDigits(cs, 0)

\* the item-service catalogue the lookups of add-item are answered from
Catalogue ==
  [i1 |-> [name |-> "arroz", unit |-> "kg", averagePrice |-> jsNumber(28905)],
   i2 |-> [name |-> "leite", averagePrice |-> jsNull]]

\* the entry add-item builds from the request body and the item looked up
newEntry(body, item) ==
  [itemId |-> body.itemId,
   itemName |-> item.name,
   quantity |-> numberOrZero(body, "quantity", 1),
   unit |-> IF "unit" \in DOMAIN body THEN body.unit
            ELSE IF "unit" \in DOMAIN item THEN item.unit ELSE "un",
   estimatedPrice |-> IF "estimatedPrice" \in DOMAIN body
                      THEN numberOrZero(body, "estimatedPrice", 1000)
                      ELSE numberOrZero(item, "averagePrice", 1000),
   purchased |-> FALSE]

\* the position of the first entry with this itemId, 0 when there is none
findIndex(items, itemId) ==
  IF \E i \in DOMAIN items : items[i].itemId = itemId
  THEN CHOOSE i \in DOMAIN items :
         /\ items[i].itemId = itemId
         /\ \A j \in 1..(i - 1) : items[j].itemId # itemId
  ELSE 0

\* the loop over the allowed keys of update-item
patchEntry(entry, body) ==
  [f \in DOMAIN entry |->
     IF f \notin DOMAIN body \/ f = "itemId" THEN entry[f]
     ELSE IF f = "quantity" THEN numberOrZero(body, f, 1)
     ELSE IF f = "estimatedPrice" THEN numberOrZero(body, f, 1000)
     ELSE IF f = "purchased" THEN toBoolean(body[f])
     ELSE body[f]]

RECURSIVE without(_, _)
without(items, itemId) ==
  IF Len(items) = 0 THEN << >>
  ELSE IF items[1].itemId = itemId THEN without(Tail(items), itemId)
  ELSE <<items[1]>> \o without(Tail(items), itemId)

NoListResponse ==
  [op |-> "none", status |-> 0, user |-> "none", id |-> 0, data |-> [kind |-> "none"]]

IdleListService ==
  [db |-> << >>, clock |-> 0, created |-> 0, received |-> 0, adding |-> {},
   resp |-> NoListResponse]

----------------------------------------------------------------------------
(* State                                                                   *)
(*  circuitBreakers : the gateway's Map of breaker records                 *)
(*  now             : Date.now(), in ms since the gateway was constructed  *)
(*  registry        : the shared registry, name -> record                  *)
(*  inflight        : the bag of proxied requests suspended at             *)
(*                    "await axios(config)"                                *)
(*  last            : the response sent by proxyByEntry in the step that   *)
(*                    led to this state (NoResponse when none was sent)    *)
(*  issued          : number of proxied requests received so far           *)
(*  blocking        : history: TRUE for a service from the moment its      *)
(*                    breaker opens until more than CooldownMs have passed *)
(*                    since its last recorded failure                      *)
(*  agg             : the aggregate request being served: where its        *)
(*                    handler stands (idle, waiting at Promise.allSettled, *)
(*                    done), which endpoint it is, its Authorization       *)
(*                    header, its q parameter, its branches and the        *)
(*                    response it sent                                     *)
(*  health          : the health-check loop: which of its timers have      *)
(*                    fired (phase), how many rounds are running (from     *)
(*                    MaxRunning on: that many or more), how the round     *)
(*                    that ended in the step leading here ended, and       *)
(*                    whether the interval has fired an odd or an even     *)
(*                    number of times                                      *)
(*  listService     : list-service: its collection of lists (db), the      *)
(*                    clock its writes are stamped with, how many lists    *)
(*                    were created and how many requests received, the     *)
(*                    add-item requests suspended at their item lookup     *)
(*                    (each with the list it read; overlapped is history:  *)
(*                    the items added by add-item requests on the same     *)
(*                    list answered 201 while this one was suspended), and *)
(*                    the response sent in the step that led to this state *)

Pending == BagToSet(inflight)

NoResponse ==
  [service |-> "none", kind |-> "none", status |-> 0, named |-> "none",
   available |-> {}, lookups |-> 0, calls |-> 0, outcome |-> "none",
   backend |-> 0, probe |-> FALSE]

\* what the backend call can come back with
BackendStatuses == {200, 404, 500}
TransportErrors == {"ECONNREFUSED", "ETIMEDOUT", "ECONNABORTED"}
Outcomes ==
  [type : {"response"}, status : BackendStatuses, code : {"none"}]
    \cup [type : {"error"}, status : {0}, code : TransportErrors]

\* the outcomes the breaker tells apart: below 500, 500 and above, no response
BreakerOutcomes ==
  {o \in Outcomes : o.type = "response" \/ o.code = "ECONNREFUSED"}

\* the request the breaker specification sends on every route
PlainReq(e) ==
  [method |-> "GET", path |-> routeTable[e].strip \o <<"/", "4", "2">>, query |-> <<>>,
   headers |-> [host |-> "gateway", authorization |-> "Bearer t"], body |-> "none"]

\* the clock is read at two granularities: a step of exactly the cool-down and
\* a step of one millisecond more, so that both sides of "> CooldownMs" occur
TickSteps == {CooldownMs, CooldownMs + 1}

Ticks(t) == t \div CooldownMs

Init ==
  /\ circuitBreakers = << >>
  /\ now = 0
  /\ registry = [x \in Services |-> [healthy |-> TRUE]]
  /\ inflight = EmptyBag
  /\ last = NoResponse
  /\ issued = 0
  /\ blocking = [s \in Services |-> FALSE]
  /\ agg = IdleAggregate
  /\ health = [phase |-> "constructed", running |-> 0, ended |-> "none",
               parity |-> 0]
  /\ listService = IdleListService

\* a service starts (or restarts) and registers itself
Register(s) ==
  /\ registry' = [x \in (DOMAIN registry) \cup {s} |->
                    IF x = s THEN [healthy |-> TRUE] ELSE registry[x]]
  /\ registry' # registry
  /\ last' = NoResponse
  /\ UNCHANGED <<listService, circuitBreakers, now, inflight, issued, blocking, agg,
                 health>>

\* a service shuts down gracefully (one service is down at a time)
Unregister(s) ==
  /\ s \in DOMAIN registry
  /\ DOMAIN registry = Services
  /\ registry' = [x \in (DOMAIN registry) \ {s} |-> registry[x]]
  /\ last' = NoResponse
  /\ UNCHANGED <<listService, circuitBreakers, now, inflight, issued, blocking, agg,
                 health>>

\* time passes
Tick(d) ==
  /\ Ticks(now) < MaxTicks
  /\ now' = now + d
  /\ blocking' = [s \in Services |->
                    /\ blocking[s]
                    /\ s \in DOMAIN circuitBreakers
                    /\ now' - circuitBreakers[s].lastFailure <= CooldownMs]
  /\ last' = NoResponse
  /\ UNCHANGED <<listService, circuitBreakers, registry, inflight, issued, agg, health>>

\* proxyByEntry from its entry to the first await (or to the early return)
\* variant: a request is turned away while another call to the same service
\* is still out
ProxyStart_Serialised(e, req) ==
  LET serviceName == routeTable[e].service
      d0 == proxyDecide(circuitBreakers, registry, serviceName, now)
      d == IF d0.kind = "forward"
              /\ \E q \in Pending : routeTable[q.entry].service = serviceName
           THEN [d0 EXCEPT !.kind = "circuit_open"]
           ELSE d0
  IN /\ BagCardinality(inflight) < MaxReq
     /\ issued < MaxIssued
     /\ issued' = issued + 1
     /\ circuitBreakers' = d.cb
     /\ IF d.kind = "forward"
        THEN /\ inflight' = inflight (+) SetToBag({
                   [entry |-> e,
                    probe |-> BreakerState(d.cb, serviceName) = "HalfOpen",
                    lookups |-> d.lookups, calls |-> 1, req |-> req,
                    config |-> proxyConfig(routeTable[e], req)]})
             /\ last' = NoResponse
        ELSE /\ inflight' = inflight
             /\ last' = [service |-> serviceName, kind |-> d.kind, status |-> 503,
                         named |-> IF d.kind = "circuit_open" THEN serviceName ELSE "none",
                         available |-> IF d.kind = "not_found"
                                       THEN listServices(registry) ELSE {},
                         lookups |-> d.lookups, calls |-> 0, outcome |-> "none",
                         backend |-> 0, probe |-> FALSE]
     /\ UNCHANGED <<listService, now, registry, blocking, agg, health>>

ProxyStart(e, req) ==
  LET serviceName == routeTable[e].service
      d == proxyDecide(circuitBreakers, registry, serviceName, now)
  IN /\ BagCardinality(inflight) < MaxReq
     /\ issued < MaxIssued
     /\ issued' = issued + 1
     /\ circuitBreakers' = d.cb
     /\ IF d.kind = "forward"
        THEN /\ inflight' = inflight (+) SetToBag({
                   [entry |-> e,
                    probe |-> BreakerState(d.cb, serviceName) = "HalfOpen",
                    lookups |-> d.lookups, calls |-> 1, req |-> req,
                    config |-> proxyConfig(routeTable[e], req)]})
             /\ last' = NoResponse
        ELSE /\ inflight' = inflight
             /\ last' = [service |-> serviceName, kind |-> d.kind, status |-> 503,
                         named |-> IF d.kind = "circuit_open" THEN serviceName ELSE "none",
                         available |-> IF d.kind = "not_found"
                                       THEN listServices(registry) ELSE {},
                         lookups |-> d.lookups, calls |-> 0, outcome |-> "none",
                         backend |-> 0, probe |-> FALSE]
     /\ UNCHANGED <<listService, now, registry, blocking, agg, health>>

\* variant: every failure is answered with the gateway's own 503
proxyRespond_Uniform503(serviceName, o) ==
  IF o.type = "response" /\ validateStatus(o.status)
  THEN [kind |-> "relay", status |-> o.status, named |-> "backend"]
  ELSE [kind |-> "unavailable", status |-> 503, named |-> serviceName]

\* the response proxyByEntry sends once the awaited call has settled
proxyRespond(serviceName, o) ==
  IF o.type = "response" /\ validateStatus(o.status)
  THEN [kind |-> "relay", status |-> o.status, named |-> "backend"]
  ELSE IF o.code = "ECONNREFUSED" \/ o.code = "ETIMEDOUT"
       THEN [kind |-> "unavailable", status |-> 503, named |-> serviceName]
       ELSE IF o.type = "response"
            THEN [kind |-> "relay", status |-> o.status, named |-> "backend"]
            ELSE [kind |-> "internal", status |-> 500, named |-> "api-gateway"]

\* variant: the breaker record is kept per route, so that calls on /api/users
\* have a record of their own
ProxyComplete_PerRoute(q, o) ==
  LET serviceName == routeTable[q.entry].service
      key == IF q.entry = 2 THEN "users" ELSE serviceName
      ok == o.type = "response" /\ validateStatus(o.status)
      resp == proxyRespond(serviceName, o)
  IN /\ q \in Pending
     /\ circuitBreakers' = IF ok THEN resetCircuitBreaker(circuitBreakers, key)
                           ELSE recordFailure(circuitBreakers, key, now)
     /\ blocking' = [blocking EXCEPT ![serviceName] =
                       @ \/ (~ok /\ circuitBreakers'[key].isOpen)]
     /\ inflight' = inflight (-) SetToBag({q})
     /\ last' = [service |-> serviceName, kind |-> resp.kind, status |-> resp.status,
                 named |-> resp.named, available |-> {},
                 lookups |-> q.lookups, calls |-> q.calls,
                 outcome |-> IF o.type = "response" THEN "http" ELSE o.code,
                 backend |-> o.status, probe |-> q.probe]
     /\ UNCHANGED <<listService, now, registry, issued, agg, health>>

\* proxyByEntry after the await: the call settled with outcome o
ProxyComplete(q, o) ==
  LET serviceName == routeTable[q.entry].service
      ok == o.type = "response" /\ validateStatus(o.status)
      resp == proxyRespond(serviceName, o)
  IN /\ q \in Pending
     /\ circuitBreakers' = IF ok THEN resetCircuitBreaker(circuitBreakers, serviceName)
                           ELSE recordFailure(circuitBreakers, serviceName, now)
     /\ blocking' = [blocking EXCEPT ![serviceName] =
                       @ \/ (~ok /\ circuitBreakers'[serviceName].isOpen)]
     /\ inflight' = inflight (-) SetToBag({q})
     /\ last' = [service |-> serviceName, kind |-> resp.kind, status |-> resp.status,
                 named |-> resp.named, available |-> {},
                 lookups |-> q.lookups, calls |-> q.calls,
                 outcome |-> IF o.type = "response" THEN "http" ELSE o.code,
                 backend |-> o.status, probe |-> q.probe]
     /\ UNCHANGED <<listService, now, registry, issued, agg, health>>

Next ==
  \/ \E s \in Services : Register(s)
  \/ \E s \in Services : Unregister(s)
  \/ \E d \in TickSteps : Tick(d)
  \/ \E e \in Entries : ProxyStart(e, PlainReq(e))
  \/ \E q \in Pending, o \in BreakerOutcomes : ProxyComplete(q, o)

Spec == Init /\ [][Next]_vars

----------------------------------------------------------------------------
(* The proxy on varied requests: every route, several residual paths,      *)
(* query strings and methods, and every outcome of the backend call, one   *)
(* request at a time.                                                      *)

Residuals == {<< >>, <<"/">>, <<"/", "4", "2">>, <<"/", "4", "2", "/", "x">>}
Queries == {<< >>, <<"limit=5">>, <<"q=a", "page=2">>}
Methods == {"GET", "POST", "PUT", "PATCH", "DELETE"}

\* a request comes without a body, or with a JSON body and the headers that
\* describe it
Payloads ==
  {[headers |-> [host |-> "gateway", accept |-> "*/*"], body |-> "none"],
   [headers |-> ("host" :> "gateway") @@ ("authorization" :> "Bearer t")
                  @@ ("content-type" :> "application/json")
                  @@ ("content-length" :> "17"),
    body |-> "json"]}

Requests(e) ==
  {[method |-> m, path |-> routeTable[e].strip \o res, query |-> q,
    headers |-> p.headers, body |-> p.body] :
     m \in Methods, res \in Residuals, q \in Queries, p \in Payloads}

NextRewrite ==
  \/ /\ inflight = EmptyBag
     /\ \E e \in Entries : \E req \in Requests(e) : ProxyStart(e, req)
  \/ \E q \in Pending, o \in Outcomes : ProxyComplete(q, o)

SpecRewrite == Init /\ [][NextRewrite]_vars

----------------------------------------------------------------------------
(* The proxy one request at a time, with every outcome of the backend call *)
(* (status below 500, 500 and above, and each transport error), the clock  *)
(* and the registry.                                                       *)

NextOutcomes ==
  \/ \E s \in Services : Register(s)
  \/ \E s \in Services : Unregister(s)
  \/ \E d \in TickSteps : Tick(d)
  \/ /\ inflight = EmptyBag
     /\ \E e \in Entries : ProxyStart(e, PlainReq(e))
  \/ \E q \in Pending, o \in Outcomes : ProxyComplete(q, o)

SpecOutcomes == Init /\ [][NextOutcomes]_vars

----------------------------------------------------------------------------
(* The dashboard: the registry changes, the three calls settle in any      *)
(* order with any outcome.                                                 *)

\* list documents as list-service stores them (its summaries hold numbers
\* rounded to the hundredth), then a document without a summary, and
\* documents whose summary holds a string of digits, a string that is not a
\* number, null, an amount with thousandths, or lacks a field
L1 == [name |-> "feira",
       summary |-> [totalItems |-> jsNumber(3), purchasedItems |-> jsNumber(1),
                    estimatedTotal |-> jsNumber(12500)]]
L2 == [name |-> "casa"]
L3 == [name |-> "festa",
       summary |-> [totalItems |-> jsNumber(2), purchasedItems |-> jsNumber(2),
                    estimatedTotal |-> jsNumber(3990)]]
L4 == [name |-> "obra",
       summary |-> [totalItems |-> jsString(<<"1", "2">>),
                    purchasedItems |-> jsString(<<"x">>),
                    estimatedTotal |-> jsNumber(1004)]]
L5 == [name |-> "viagem",
       summary |-> [totalItems |-> jsNull, estimatedTotal |-> jsString(<<"7">>)]]

\* what each backend can put in its data array
ListsData == {<< >>, <<L1, L2>>, <<L1, L2, L3, L1, L2, L3>>}
ItemsData == {<< >>, <<"arroz", "feijao", "leite", "pao", "cafe", "sabao">>}
CategoriesData == {<< >>, <<"Alimentos", "Limpeza">>}

AuthHeaders == {"none", "Bearer t"}

BranchData(b) ==
  IF b.service = "list-service" THEN ListsData
  ELSE IF b.path = <<"/", "i", "t", "e", "m", "s">> THEN ItemsData
  ELSE CategoriesData

\* what a backend can answer to a call of the aggregator: its array envelope,
\* an error envelope below 500 (list-service answers 401 to a token it does
\* not accept), a 500, or no answer at all
CallOutcomes(b) ==
  {[type |-> "response", status |-> 200, body |-> ArrayEnvelope(d), code |-> "none"] :
      d \in BranchData(b)}
    \cup {[type |-> "response", status |-> st, body |-> ErrorEnvelope("erro"),
           code |-> "none"] :
            st \in {IF b.service = "list-service" THEN 401 ELSE 404, 500}}
    \cup {[type |-> "error", status |-> 0, body |-> ErrorEnvelope("none"), code |-> c] :
            c \in TransportErrors}

\* GET /api/dashboard arrives: 401 without Authorization, otherwise the three
\* calls are started and the handler waits for all of them
DashboardStart(authHeader) ==
  /\ agg.pc \in {"idle", "done"}
  /\ agg' = IF authHeader = "none"
            THEN [pc |-> "done", kind |-> "dashboard", auth |-> authHeader,
                  q |-> << >>, branches |-> << >>,
                  resp |-> [status |-> 401,
                            body |-> [success |-> FALSE,
                                      message |-> "Token de autenticacao obrigatorio"]]]
            ELSE [pc |-> "waiting", kind |-> "dashboard", auth |-> authHeader,
                  q |-> << >>,
                  branches |-> dashboardCalls(registry, authHeader),
                  resp |-> NoAggResponse]
  /\ last' = NoResponse
  /\ UNCHANGED <<listService, circuitBreakers, now, registry, inflight, issued, blocking,
                 health>>

\* variant: the outcome of a branch's call is reported to the breaker of its
\* service, as proxyByEntry reports the outcome of a proxied call
CallSettle_Counted(i, o) ==
  /\ agg.pc = "waiting"
  /\ i \in DOMAIN agg.branches
  /\ agg.branches[i].state = "pending"
  /\ agg' = [agg EXCEPT !.branches[i] = callSettle(@, o)]
  /\ circuitBreakers' =
       IF o.type = "response" /\ callValidateStatus(o.status)
       THEN resetCircuitBreaker(circuitBreakers, agg.branches[i].service)
       ELSE recordFailure(circuitBreakers, agg.branches[i].service, now)
  /\ last' = NoResponse
  /\ UNCHANGED <<listService, now, registry, inflight, issued, blocking, health>>

\* the call of one branch comes back
CallSettle(i, o) ==
  /\ agg.pc = "waiting"
  /\ i \in DOMAIN agg.branches
  /\ agg.branches[i].state = "pending"
  /\ agg' = [agg EXCEPT !.branches[i] = callSettle(@, o)]
  /\ last' = NoResponse
  /\ UNCHANGED <<listService, circuitBreakers, now, registry, inflight, issued, blocking,
                 health>>

\* variant: the handler resumes as soon as one branch has settled
DashboardRespond_OnFirst ==
  /\ agg.pc = "waiting"
  /\ agg.kind = "dashboard"
  /\ \E i \in DOMAIN agg.branches : agg.branches[i].state # "pending"
  /\ agg' = [agg EXCEPT !.pc = "done",
                        !.resp = getDashboardRespond(agg.branches, registry)]
  /\ last' = NoResponse
  /\ UNCHANGED <<listService, circuitBreakers, now, registry, inflight, issued, blocking,
                 health>>

\* every branch has settled: the handler resumes and answers
DashboardRespond ==
  /\ agg.pc = "waiting"
  /\ agg.kind = "dashboard"
  /\ \A i \in DOMAIN agg.branches : agg.branches[i].state # "pending"
  /\ agg' = [agg EXCEPT !.pc = "done",
                        !.resp = getDashboardRespond(agg.branches, registry)]
  /\ last' = NoResponse
  /\ UNCHANGED <<listService, circuitBreakers, now, registry, inflight, issued, blocking,
                 health>>

NextAggregate ==
  \/ \E s \in Services : Register(s)
  \/ \E s \in Services : Unregister(s)
  \/ \E a \in AuthHeaders : DashboardStart(a)
  \/ \E i \in DOMAIN agg.branches :
       \E o \in CallOutcomes(agg.branches[i]) : CallSettle(i, o)
  \/ DashboardRespond

SpecAggregate == Init /\ [][NextAggregate]_vars

----------------------------------------------------------------------------
(* Every backend call the gateway makes: proxied requests served one at a  *)
(* time between dashboard requests, all services registered.               *)

NextCalls ==
  \/ /\ inflight = EmptyBag
     /\ agg.pc # "waiting"
     /\ \E e \in Entries : ProxyStart(e, PlainReq(e))
  \/ \E q \in Pending, o \in BreakerOutcomes : ProxyComplete(q, o)
  \/ /\ inflight = EmptyBag
     /\ DashboardStart("Bearer t")
  \/ \E i \in DOMAIN agg.branches :
       \E o \in CallOutcomes(agg.branches[i]) : CallSettle(i, o)
  \/ DashboardRespond

SpecCalls == Init /\ [][NextCalls]_vars

----------------------------------------------------------------------------
(* The dashboard's totals: list-service answers with every array of up to  *)
(* MaxLists list documents, item-service answers normally.                 *)

MaxLists == 3

ListDocs == {L1, L2, L3, L4, L5}

RECURSIVE SeqsUpTo(_, _)
SeqsUpTo(S, n) ==
  IF n = 0
  THEN {<< >>}
  ELSE SeqsUpTo(S, n - 1)
         \cup {Append(xs, x) : xs \in {ys \in SeqsUpTo(S, n - 1) : Len(ys) = n - 1},
                                x \in S}

SummaryOutcomes(b) ==
  IF b.service = "list-service"
  THEN {[type |-> "response", status |-> 200, body |-> ArrayEnvelope(d),
         code |-> "none"] : d \in SeqsUpTo(ListDocs, MaxLists)}
  ELSE {[type |-> "response", status |-> 200, body |-> ArrayEnvelope(d),
         code |-> "none"] : d \in BranchData(b) \ {<< >>}}

NextSummary ==
  \/ DashboardStart("Bearer t")
  \/ \E i \in DOMAIN agg.branches :
       \E o \in SummaryOutcomes(agg.branches[i]) : CallSettle(i, o)
  \/ DashboardRespond

SpecSummary == Init /\ [][NextSummary]_vars

----------------------------------------------------------------------------
(* Global search: requests with and without q and Authorization, the       *)
(* registry changes, the calls settle in any order with any outcome.       *)

MaxSearchLists == 2

S1 == [name |-> <<"A", "b">>, items |-> << >>]
S2 == [name |-> <<"b">>, items |-> <<[itemName |-> <<"B", "A">>]>>]
S3 == [items |-> <<[quantity |-> 1]>>]
S4 == [name |-> <<"a", "a">>]

SearchDocs == {S1, S2, S3, S4}

\* the q of a request: not given, or given with this text
SearchQueries ==
  {[given |-> FALSE, text |-> << >>], [given |-> TRUE, text |-> << >>],
   [given |-> TRUE, text |-> <<"a">>], [given |-> TRUE, text |-> <<"A", "B">>],
   [given |-> TRUE, text |-> <<"b", "a">>], [given |-> TRUE, text |-> <<"B">>]}

SearchResults == {<< >>, <<"arroz", "feijao">>}

SearchOutcomes(b) ==
  (IF b.service = "list-service"
   THEN {[type |-> "response", status |-> 200, body |-> ArrayEnvelope(d),
          code |-> "none"] : d \in SeqsUpTo(SearchDocs, MaxSearchLists)}
   ELSE {[type |-> "response", status |-> 200,
          body |-> SearchEnvelope(b.params[1].value, rs), code |-> "none"] :
            rs \in SearchResults})
    \cup {[type |-> "response", status |-> st, body |-> ErrorEnvelope("erro"),
           code |-> "none"] :
            st \in {IF b.service = "list-service" THEN 401 ELSE 404, 500}}
    \cup {[type |-> "error", status |-> 0, body |-> ErrorEnvelope("none"),
           code |-> "ECONNREFUSED"]}

\* variant: only a request without q is refused
SearchStart_EmptyAllowed(query, authHeader) ==
  /\ agg.pc \in {"idle", "done"}
  /\ agg' = IF ~query.given
            THEN [pc |-> "done", kind |-> "search", auth |-> authHeader,
                  q |-> query.text, branches |-> << >>,
                  resp |-> [status |-> 400,
                            body |-> [success |-> FALSE,
                                      message |-> "Parametro q e obrigatorio"]]]
            ELSE [pc |-> "waiting", kind |-> "search", auth |-> authHeader,
                  q |-> query.text,
                  branches |-> searchCalls(registry, query.text, authHeader),
                  resp |-> NoAggResponse]
  /\ last' = NoResponse
  /\ UNCHANGED <<listService, circuitBreakers, now, registry, inflight, issued, blocking,
                 health>>

\* GET /api/search arrives: 400 when q is missing or empty, otherwise the
\* calls are started and the handler waits for all of them
SearchStart(query, authHeader) ==
  /\ agg.pc \in {"idle", "done"}
  /\ agg' = IF ~query.given \/ Len(query.text) = 0
            THEN [pc |-> "done", kind |-> "search", auth |-> authHeader,
                  q |-> query.text, branches |-> << >>,
                  resp |-> [status |-> 400,
                            body |-> [success |-> FALSE,
                                      message |-> "Parametro q e obrigatorio"]]]
            ELSE [pc |-> "waiting", kind |-> "search", auth |-> authHeader,
                  q |-> query.text,
                  branches |-> searchCalls(registry, query.text, authHeader),
                  resp |-> NoAggResponse]
  /\ last' = NoResponse
  /\ UNCHANGED <<listService, circuitBreakers, now, registry, inflight, issued, blocking,
                 health>>

\* every branch has settled: the handler resumes and answers
SearchRespond ==
  /\ agg.pc = "waiting"
  /\ agg.kind = "search"
  /\ \A i \in DOMAIN agg.branches : agg.branches[i].state # "pending"
  /\ agg' = [agg EXCEPT !.pc = "done",
                        !.resp = globalSearchRespond(agg.branches, agg.q)]
  /\ last' = NoResponse
  /\ UNCHANGED <<listService, circuitBreakers, now, registry, inflight, issued, blocking,
                 health>>

NextSearch ==
  \/ \E s \in Services : Register(s)
  \/ \E s \in Services : Unregister(s)
  \/ \E query \in SearchQueries, a \in AuthHeaders : SearchStart(query, a)
  \/ \E i \in DOMAIN agg.branches :
       \E o \in SearchOutcomes(agg.branches[i]) : CallSettle(i, o)
  \/ SearchRespond

SpecSearch == Init /\ [][NextSearch]_vars

----------------------------------------------------------------------------
(* Both aggregate endpoints, one request after the other.                  *)

FanOutOutcomes(b) ==
  IF agg.kind = "search" THEN SearchOutcomes(b) ELSE CallOutcomes(b)

NextFanOut ==
  \/ \E s \in Services : Register(s)
  \/ \E s \in Services : Unregister(s)
  \/ \E a \in AuthHeaders : DashboardStart(a)
  \/ \E query \in SearchQueries, a \in AuthHeaders : SearchStart(query, a)
  \/ \E i \in DOMAIN agg.branches :
       \E o \in FanOutOutcomes(agg.branches[i]) : CallSettle(i, o)
  \/ DashboardRespond
  \/ SearchRespond

SpecFanOut == Init /\ [][NextFanOut]_vars

----------------------------------------------------------------------------
(* The health-check loop of the gateway and the health reporting of the    *)
(* services, on the shared registry.                                       *)

MaxRunning == 2

\* the services whose source has the reporting timer
ReportingServices == {"item-service", "list-service"}

\* serviceRegistry.updateHealth(name, healthy)
updateHealth(reg, serviceName, healthy) ==
  IF serviceName \in DOMAIN reg
  THEN [reg EXCEPT ![serviceName].healthy = healthy]
  ELSE reg

\* a round of performHealthChecks starts: one more round is running
roundStarted(h) ==
  [h EXCEPT !.running = IF @ < MaxRunning THEN @ + 1 ELSE @, !.ended = "none"]

\* the timer set by the constructor fires: startHealthChecks sets the
\* interval and the one-off timer of the first round
StartHealthChecks ==
  /\ health.phase = "constructed"
  /\ health' = [health EXCEPT !.phase = "armed", !.ended = "none"]
  /\ last' = NoResponse
  /\ UNCHANGED <<listService, circuitBreakers, now, registry, inflight, issued, blocking, agg>>

\* the one-off timer fires, 5s after startHealthChecks: the first round
InitialRound ==
  /\ health.phase = "armed"
  /\ health' = [roundStarted(health) EXCEPT !.phase = "first"]
  /\ last' = NoResponse
  /\ UNCHANGED <<listService, circuitBreakers, now, registry, inflight, issued, blocking, agg>>

\* the interval fires, every 30s after startHealthChecks: a new round,
\* whatever has become of the earlier ones
IntervalTick ==
  /\ health.phase \in {"first", "periodic"}
  /\ health' = [roundStarted(health) EXCEPT !.phase = "periodic",
                                            !.parity = 1 - @]
  /\ last' = NoResponse
  /\ UNCHANGED <<listService, circuitBreakers, now, registry, inflight, issued, blocking, agg>>

\* a running round has probed a registered service and writes the result
HealthProbe(s, ok) ==
  /\ health.running > 0
  /\ s \in DOMAIN registry
  /\ registry' = updateHealth(registry, s, ok)
  /\ health' = [health EXCEPT !.ended = "none"]
  /\ last' = NoResponse
  /\ UNCHANGED <<listService, circuitBreakers, now, inflight, issued, blocking, agg>>

\* variant: a round that rejects takes the loop down with it
RoundEnd_Uncaught(outcome) ==
  /\ health.running > 0
  /\ health' = [health EXCEPT
                  !.running = IF @ = MaxRunning THEN @ ELSE @ - 1,
                  !.ended = outcome,
                  !.phase = IF outcome = "rejected" THEN "stopped" ELSE @]
  /\ last' = NoResponse
  /\ UNCHANGED <<listService, circuitBreakers, now, registry, inflight, issued, blocking, agg>>

\* a running round ends: it resolves, or it throws or rejects and the catch
\* block of the timer callback logs the error
RoundEnd(outcome) ==
  /\ health.running > 0
  /\ \E r \in {health.running - 1} \cup (IF health.running = MaxRunning
                                         THEN {MaxRunning} ELSE {}) :
       health' = [health EXCEPT !.running = r, !.ended = outcome]
  /\ last' = NoResponse
  /\ UNCHANGED <<listService, circuitBreakers, now, registry, inflight, issued, blocking, agg>>

\* the reporting timer of a service fires
HealthReport(s) ==
  /\ s \in ReportingServices
  /\ s \in DOMAIN registry
  /\ registry' = updateHealth(registry, s, TRUE)
  /\ health' = [health EXCEPT !.ended = "none"]
  /\ last' = NoResponse
  /\ UNCHANGED <<listService, circuitBreakers, now, inflight, issued, blocking, agg>>

NextHealth ==
  \/ \E s \in Services : Register(s)
  \/ \E s \in Services : Unregister(s)
  \/ StartHealthChecks
  \/ InitialRound
  \/ IntervalTick
  \/ \E s \in Services, ok \in BOOLEAN : HealthProbe(s, ok)
  \/ \E outcome \in {"resolved", "rejected"} : RoundEnd(outcome)
  \/ \E s \in Services : HealthReport(s)

SpecHealth == Init /\ [][NextHealth]_vars

\* timers that are due fire
SpecHealthFair ==
  /\ SpecHealth
  /\ WF_vars(StartHealthChecks)
  /\ WF_vars(InitialRound)
  /\ WF_vars(IntervalTick)

----------------------------------------------------------------------------
(* Proxied requests and both aggregate endpoints against breakers that     *)
(* open: requests are served one after the other, with every kind of       *)
(* outcome for a branch's call and one body of each.                       *)

BypassOutcomes(b) ==
  {[type |-> "response", status |-> 200,
    body |-> IF agg.kind = "search" /\ b.service = "item-service"
             THEN SearchEnvelope(b.params[1].value, << >>)
             ELSE ArrayEnvelope(<< >>),
    code |-> "none"],
   [type |-> "response", status |-> 500, body |-> ErrorEnvelope("erro"),
    code |-> "none"]}
    \cup {[type |-> "error", status |-> 0, body |-> ErrorEnvelope("none"), code |-> c] :
            c \in TransportErrors}

NextBypass ==
  \/ /\ inflight = EmptyBag
     /\ agg.pc # "waiting"
     /\ \E e \in Entries : ProxyStart(e, PlainReq(e))
  \/ \E q \in Pending, o \in BreakerOutcomes : ProxyComplete(q, o)
  \/ /\ inflight = EmptyBag
     /\ DashboardStart("Bearer t")
  \/ /\ inflight = EmptyBag
     /\ \E a \in AuthHeaders :
          SearchStart([given |-> TRUE, text |-> <<"a">>], a)
  \/ \E i \in DOMAIN agg.branches :
       \E o \in BypassOutcomes(agg.branches[i]) : CallSettle(i, o)
  \/ DashboardRespond
  \/ SearchRespond

SpecBypass == Init /\ [][NextBypass]_vars

----------------------------------------------------------------------------
(* list-service: its requests. Every handler but add-item runs from its    *)
(* database read to its database write in one step; add-item is suspended  *)
(* at its call to item-service, and other requests are served meanwhile.   *)

MaxStoredLists == 2
MaxListRequests == 3
MaxAdding == 2

ListIds == 1..MaxStoredLists
ItemIds == {"i1", "i2"}

gatewayVars ==
  <<circuitBreakers, now, registry, inflight, last, issued, blocking, agg, health>>

NoData == [kind |-> "none"]

Answer(op, status, user, id, data) ==
  [op |-> op, status |-> status, user |-> user, id |-> id, data |-> data]

\* the request bodies and query strings sent
CreateBodies ==
  {[name |-> jsString(<<"a">>), description |-> jsString(<<>>)],
   [description |-> jsString(<<"d">>)]}

ListQueries ==
  {<< >>, [status |-> "completed"], [page |-> <<"2">>, limit |-> <<"1">>]}

PutListBodies ==
  {<< >>, [name |-> jsString(<<"b">>), status |-> "completed"], [status |-> "bogus"]}

AddItemBodies ==
  {[itemId |-> "i1", quantity |-> jsNumber(2)],
   [itemId |-> "i2", quantity |-> jsString(<<"3">>), estimatedPrice |-> jsNumber(1505)],
   [itemId |-> "i9", quantity |-> jsNumber(1)],
   [itemId |-> "i1"],
   [quantity |-> jsNumber(1)]}

PutItemBodies ==
  {<< >>, [purchased |-> jsBool(TRUE)], [purchased |-> jsString(<<>>)],
   [quantity |-> jsString(<<"x">>), estimatedPrice |-> jsNumber(1004)]}

\* what GET /items/:id of item-service can come back with
ItemOutcomes(itemId) ==
  (IF itemId \in DOMAIN Catalogue
   THEN {[type |-> "response", status |-> 200,
          body |-> [success |-> TRUE, data |-> Catalogue[itemId]]]}
   ELSE {[type |-> "response", status |-> 404, body |-> [success |-> FALSE]]})
    \cup {[type |-> "response", status |-> 200, body |-> [success |-> FALSE]],
          [type |-> "error", status |-> 0, body |-> [success |-> FALSE]]}

\* a request that authMiddleware or the handler's checks answer without
\* touching the collection
Answered(op, status, user, id) ==
  [listService EXCEPT !.received = @ + 1,
                      !.resp = Answer(op, status, user, id, NoData)]

\* a request that writes the collection and answers
Stored(op, status, user, id, w, data) ==
  [listService EXCEPT !.received = @ + 1, !.db = w, !.clock = @ + 1,
                      !.resp = Answer(op, status, user, id, data)]

\* POST /lists
CreateList(authHeader, body) ==
  LET a == authMiddleware(authHeader)
      id == listService.created + 1
      c == create(listService.db,
                  [id |-> id, userId |-> a.user, name |-> body.name,
                   description |-> IF "description" \in DOMAIN body
                                      /\ toBoolean(body.description)
                                   THEN body.description ELSE jsNull,
                   status |-> "active", items |-> << >>,
                   summary |-> [totalItems |-> 0, purchasedItems |-> 0,
                                estimatedTotal |-> 0]],
                  listService.clock + 1)
  IN /\ listService.received < MaxListRequests
     /\ listService.created < MaxStoredLists
     /\ listService' =
          IF ~a.ok THEN Answered("create", a.status, a.user, 0)
          ELSE IF "name" \notin DOMAIN body \/ ~toBoolean(body.name)
               THEN Answered("create", 400, a.user, 0)
               ELSE [Stored("create", 201, a.user, id, c.db,
                            [kind |-> "list", list |-> c.ret])
                       EXCEPT !.created = id]
     /\ UNCHANGED gatewayVars

\* GET /lists
GetLists(authHeader, query) ==
  LET a == authMiddleware(authHeader)
      flt == IF "status" \in DOMAIN query /\ query.status # ""
             THEN [userId |-> a.user, status |-> query.status]
             ELSE [userId |-> a.user]
      page == IF "page" \in DOMAIN query THEN parseInt(query.page) ELSE 1
      limit == IF "limit" \in DOMAIN query THEN parseInt(query.limit) ELSE 20
      skip == (page - 1) * limit
      total == count(listService.db, flt)
  IN /\ listService.received < MaxListRequests
     /\ listService' =
          IF ~a.ok THEN Answered("lists", a.status, a.user, 0)
          ELSE [listService EXCEPT
                  !.received = @ + 1,
                  !.resp = Answer("lists", 200, a.user, 0,
                             [kind |-> "lists",
                              lists |-> find(listService.db, flt, skip, limit),
                              page |-> page, limit |-> limit, total |-> total,
                              pages |-> (total + limit - 1) \div limit])]
     /\ UNCHANGED gatewayVars

\* GET /lists/:id
GetList(authHeader, id) ==
  LET a == authMiddleware(authHeader)
      list == findById(listService.db, id)
  IN /\ listService.received < MaxListRequests
     /\ listService' =
          IF ~a.ok THEN Answered("read", a.status, a.user, id)
          ELSE IF ~ensureOwnership(list, a.user)
               THEN Answered("read", 404, a.user, id)
               ELSE [listService EXCEPT
                       !.received = @ + 1,
                       !.resp = Answer("read", 200, a.user, id,
                                       [kind |-> "list", list |-> list])]
     /\ UNCHANGED gatewayVars

\* PUT /lists/:id
PutList(authHeader, id, body) ==
  LET a == authMiddleware(authHeader)
      list == findById(listService.db, id)
      updates == [f \in {"name", "description", "status"} \cap DOMAIN body |-> body[f]]
      u == update(listService.db, list.id, updates, listService.clock + 1)
  IN /\ listService.received < MaxListRequests
     /\ listService' =
          IF ~a.ok THEN Answered("update", a.status, a.user, id)
          ELSE IF ~ensureOwnership(list, a.user)
               THEN Answered("update", 404, a.user, id)
               ELSE IF "status" \in DOMAIN body
                       /\ body.status \notin {"active", "completed", "archived"}
                    THEN Answered("update", 400, a.user, id)
                    ELSE Stored("update", 200, a.user, id, u.db,
                                [kind |-> "list", list |-> u.ret])
     /\ UNCHANGED gatewayVars

\* DELETE /lists/:id
DeleteList(authHeader, id) ==
  LET a == authMiddleware(authHeader)
      list == findById(listService.db, id)
  IN /\ listService.received < MaxListRequests
     /\ listService' =
          IF ~a.ok THEN Answered("delete", a.status, a.user, id)
          ELSE IF ~ensureOwnership(list, a.user)
               THEN Answered("delete", 404, a.user, id)
               ELSE Stored("delete", 200, a.user, id,
                           delete(listService.db, list.id), NoData)
     /\ UNCHANGED gatewayVars

\* POST /lists/:id/items, up to "await axios.get" in fetchItemById
AddItemStart(authHeader, id, body) ==
  LET a == authMiddleware(authHeader)
      list == findById(listService.db, id)
  IN /\ listService.received < MaxListRequests
     /\ Cardinality(listService.adding) < MaxAdding
     /\ listService' =
          IF ~a.ok THEN Answered("add-item", a.status, a.user, id)
          ELSE IF \/ "itemId" \notin DOMAIN body
                  \/ body.itemId = ""
                  \/ "quantity" \notin DOMAIN body
               THEN Answered("add-item", 400, a.user, id)
               ELSE IF ~ensureOwnership(list, a.user)
                    THEN Answered("add-item", 404, a.user, id)
                    ELSE IF ~discoverOk(registry, "item-service")
                         THEN Answered("add-item", 500, a.user, id)
                         ELSE [listService EXCEPT
                                 !.received = @ + 1,
                                 !.adding = @ \cup
                                    {[n |-> listService.received + 1,
                                      user |-> a.user, list |-> list,
                                      body |-> body, overlapped |-> {}]},
                                 !.resp = NoListResponse]
     /\ UNCHANGED gatewayVars

\* list.items.push(entry); recalcSummary(list); listsDb.update(list.id, ...)
addItemWrite(db, p, entry, t) ==
  LET items == p.list.items \o <<entry>>
  IN update(db, p.list.id,
            [items |-> items, summary |-> recalcSummary(items)], t)

\* POST /lists/:id/items, after the await: the lookup came back with o
AddItemFinish(p, o) ==
  LET w == addItemWrite(listService.db, p, newEntry(p.body, o.body.data),
                        listService.clock + 1)
      rest == listService.adding \ {p}
  IN /\ p \in listService.adding
     /\ listService' =
          IF o.type = "error" \/ o.status >= 300
          THEN [listService EXCEPT
                  !.adding = rest,
                  !.resp = Answer("add-item", 502, p.user, p.list.id, NoData)]
          ELSE IF ~o.body.success
               THEN [listService EXCEPT
                       !.adding = rest,
                       !.resp = Answer("add-item", 500, p.user, p.list.id, NoData)]
               ELSE [listService EXCEPT
                       !.db = w.db,
                       !.clock = @ + 1,
                       !.adding =
                          {IF q.list.id = p.list.id /\ w.ret # NoList
                           THEN [q EXCEPT !.overlapped = @ \cup {p.body.itemId}]
                           ELSE q : q \in rest},
                       !.resp = Answer("add-item", 201, p.user, p.list.id,
                                       [kind |-> "list", list |-> w.ret])]
     /\ UNCHANGED gatewayVars

\* PUT /lists/:id/items/:itemId
PutItem(authHeader, id, itemId, body) ==
  LET a == authMiddleware(authHeader)
      list == findById(listService.db, id)
      idx == findIndex(list.items, itemId)
      items == [list.items EXCEPT ![idx] = patchEntry(@, body)]
      u == update(listService.db, list.id,
                  [items |-> items, summary |-> recalcSummary(items)],
                  listService.clock + 1)
  IN /\ listService.received < MaxListRequests
     /\ listService' =
          IF ~a.ok THEN Answered("update-item", a.status, a.user, id)
          ELSE IF ~ensureOwnership(list, a.user)
               THEN Answered("update-item", 404, a.user, id)
               ELSE IF idx = 0
                    THEN Answered("update-item", 404, a.user, id)
                    ELSE Stored("update-item", 200, a.user, id, u.db,
                                [kind |-> "list", list |-> u.ret])
     /\ UNCHANGED gatewayVars

\* DELETE /lists/:id/items/:itemId
DeleteItem(authHeader, id, itemId) ==
  LET a == authMiddleware(authHeader)
      list == findById(listService.db, id)
      items == without(list.items, itemId)
      u == update(listService.db, list.id,
                  [items |-> items, summary |-> recalcSummary(items)],
                  listService.clock + 1)
  IN /\ listService.received < MaxListRequests
     /\ listService' =
          IF ~a.ok THEN Answered("remove-item", a.status, a.user, id)
          ELSE IF ~ensureOwnership(list, a.user)
               THEN Answered("remove-item", 404, a.user, id)
               ELSE IF Len(items) = Len(list.items)
                    THEN Answered("remove-item", 404, a.user, id)
                    ELSE Stored("remove-item", 200, a.user, id, u.db,
                                [kind |-> "list", list |-> u.ret])
     /\ UNCHANGED gatewayVars

\* GET /lists/:id/summary
GetSummary(authHeader, id) ==
  LET a == authMiddleware(authHeader)
      list == findById(listService.db, id)
      summary == recalcSummary(list.items)
      u == update(listService.db, list.id, [summary |-> summary],
                  listService.clock + 1)
  IN /\ listService.received < MaxListRequests
     /\ listService' =
          IF ~a.ok THEN Answered("summary", a.status, a.user, id)
          ELSE IF ~ensureOwnership(list, a.user)
               THEN Answered("summary", 404, a.user, id)
               ELSE Stored("summary", 200, a.user, id, u.db,
                           [kind |-> "summary", summary |-> summary])
     /\ UNCHANGED gatewayVars

NextLists ==
  \/ \E s \in {"item-service"} : Register(s)
  \/ \E s \in {"item-service"} : Unregister(s)
  \/ \E h \in ListAuthHeaders, b \in CreateBodies : CreateList(h, b)
  \/ \E h \in ListAuthHeaders, q \in ListQueries : GetLists(h, q)
  \/ \E h \in ListAuthHeaders, id \in ListIds : GetList(h, id)
  \/ \E h \in ListAuthHeaders, id \in ListIds, b \in PutListBodies : PutList(h, id, b)
  \/ \E h \in ListAuthHeaders, id \in ListIds : DeleteList(h, id)
  \/ \E h \in ListAuthHeaders, id \in ListIds, b \in AddItemBodies :
       AddItemStart(h, id, b)
  \/ \E p \in listService.adding :
       \E o \in ItemOutcomes(p.body.itemId) : AddItemFinish(p, o)
  \/ \E h \in ListAuthHeaders, id \in ListIds, i \in ItemIds, b \in PutItemBodies :
       PutItem(h, id, i, b)
  \/ \E h \in ListAuthHeaders, id \in ListIds, i \in ItemIds : DeleteItem(h, id, i)
  \/ \E h \in ListAuthHeaders, id \in ListIds : GetSummary(h, id)

SpecLists == Init /\ [][NextLists]_vars

----------------------------------------------------------------------------
(* Properties of the circuit breaker and the proxy                         *)

ServiceOf(q) == routeTable[q.entry].service

Failures(cb, s) == IF s \in DOMAIN cb THEN cb[s].failures ELSE 0

Succeeded(o) == o.type = "response" /\ o.status < 500

\* C1 (as stated): in every reachable state a service whose breaker record
\* holds 3 or more consecutive recorded failures has its breaker Open.
C1_OpenAtThreshold ==
  \A s \in DOMAIN circuitBreakers :
    circuitBreakers[s].failures >= 3 => circuitBreakers[s].isOpen

\* C1 (amended): a service with 3 or more consecutive recorded failures has
\* its breaker Open, or HalfOpen after a gate check that found more than 30s
\* elapsed since the last recorded failure; it is never Closed.
C1_OpenOrHalfOpenAtThreshold ==
  \A s \in DOMAIN circuitBreakers :
    circuitBreakers[s].failures >= 3 =>
      \/ circuitBreakers[s].isOpen
      \/ /\ circuitBreakers[s].isHalfOpen
         /\ now - circuitBreakers[s].lastFailure > 30000

C1_Witness ==
  \E s \in DOMAIN circuitBreakers :
    /\ circuitBreakers[s].failures >= 3
    /\ circuitBreakers[s].isHalfOpen
    /\ ~circuitBreakers[s].isOpen

\* C2: from the moment a breaker opens until more than 30s have passed since
\* the service's last recorded failure, no proxied request for that service is
\* forwarded to the backend (every one is rejected).
C2_BlockedDuringCooldown ==
  [][\A e \in Entries :
       (ProxyStart(e, PlainReq(e)) /\ inflight' # inflight)
         => ~blocking[routeTable[e].service]]_vars

\* C3: right after a proxied call answered by the backend with a status below
\* 500, the service's failure count is 0 and its breaker is Closed.
C3_SuccessCloses ==
  (last.outcome = "http" /\ last.status < 500) =>
    /\ Failures(circuitBreakers, last.service) = 0
    /\ BreakerState(circuitBreakers, last.service) = "Closed"
    /\ last.service \in DOMAIN circuitBreakers =>
         /\ ~circuitBreakers[last.service].isOpen
         /\ ~circuitBreakers[last.service].isHalfOpen

\* a success that arrived while the breaker was inside its open window
C3_Witness ==
  /\ last.outcome = "http"
  /\ last.status < 500
  /\ last.service \in DOMAIN circuitBreakers
  /\ blocking[last.service]

\* C4: a proxied call answered with a 4xx status does not increment the
\* service's failure count and does not leave its breaker open.
C4_ClientErrorNotCounted ==
  [][\A q \in Pending, o \in Outcomes :
       (o.type = "response" /\ o.status >= 400 /\ o.status < 500 /\ ProxyComplete(q, o))
         => /\ Failures(circuitBreakers', ServiceOf(q)) <= Failures(circuitBreakers, ServiceOf(q))
            /\ BreakerState(circuitBreakers', ServiceOf(q)) # "Open"]_vars

C4_Witness ==
  /\ last.outcome = "http"
  /\ last.status >= 400
  /\ last.status < 500
  /\ last.service \in DOMAIN circuitBreakers
  /\ circuitBreakers[last.service].lastFailure = now

\* C5: a gate check on an Open breaker made at most 30s after the last
\* recorded failure rejects the request and leaves the breaker Open; one made
\* more than 30s after it moves the breaker to HalfOpen and lets the request
\* pass the gate; and no step other than a gate check (the arrival of a
\* proxied request) moves a breaker from Open to HalfOpen.
C5_LazyHalfOpen ==
  [][\A s \in DOMAIN circuitBreakers :
       circuitBreakers[s].isOpen =>
         /\ \A e \in Entries :
              (routeTable[e].service = s /\ ProxyStart(e, PlainReq(e))) =>
                IF now - circuitBreakers[s].lastFailure <= 30000
                THEN /\ last'.kind = "circuit_open"
                     /\ circuitBreakers' = circuitBreakers
                ELSE /\ last'.kind # "circuit_open"
                     /\ BreakerState(circuitBreakers', s) = "HalfOpen"
         /\ BreakerState(circuitBreakers', s) = "HalfOpen" =>
              /\ now - circuitBreakers[s].lastFailure > 30000
              /\ issued' = issued + 1
              /\ now' = now]_vars

C5_Witness ==
  \E s \in DOMAIN circuitBreakers :
    /\ circuitBreakers[s].isHalfOpen
    /\ now - circuitBreakers[s].lastFailure = 30001

\* C6: a failure recorded while the breaker is HalfOpen leaves it Open with
\* the half-open flag cleared and the last-failure time set to the time of
\* that failure, so that a gate check a full 30s later still rejects.
C6_HalfOpenFailureReopens ==
  [][\A q \in Pending, o \in Outcomes :
       (/\ ~Succeeded(o)
        /\ BreakerState(circuitBreakers, ServiceOf(q)) = "HalfOpen"
        /\ ProxyComplete(q, o))
         => /\ circuitBreakers'[ServiceOf(q)].isOpen
            /\ ~circuitBreakers'[ServiceOf(q)].isHalfOpen
            /\ circuitBreakers'[ServiceOf(q)].lastFailure = now
            /\ isCircuitOpen(circuitBreakers', ServiceOf(q), now + 30000).ret
            /\ ~isCircuitOpen(circuitBreakers', ServiceOf(q), now + 30001).ret]_vars

\* the probing call admitted in HalfOpen failed and took the count from 3 to 4
C6_Witness ==
  /\ last.probe
  /\ last.outcome # "none"
  /\ ~(last.outcome = "http" /\ last.status < 500)
  /\ last.service \in DOMAIN circuitBreakers
  /\ circuitBreakers[last.service].failures = 4
  /\ circuitBreakers[last.service].isOpen
  /\ circuitBreakers[last.service].lastFailure = now

\* C7: at most one backend call admitted while the breaker was HalfOpen is
\* in flight per service.
C7_SingleProbe ==
  \A s \in Services :
    \A q \in Pending :
      (q.probe /\ ServiceOf(q) = s) =>
        /\ inflight[q] = 1
        /\ \A x \in Pending : (x.probe /\ ServiceOf(x) = s) => x = q

\* C8: a proxied request that finds the breaker of its target service open is
\* answered 503 naming the service, with no registry lookup and no backend
\* call made for it.
C8_OpenShortCircuits ==
  [][\A e \in Entries :
       (/\ isCircuitOpen(circuitBreakers, routeTable[e].service, now).ret
        /\ ProxyStart(e, PlainReq(e)))
         => /\ last'.status = 503
            /\ last'.named = routeTable[e].service
            /\ last'.lookups = 0
            /\ last'.calls = 0
            /\ inflight' = inflight
            /\ registry' = registry]_vars

C8_Witness ==
  /\ last.kind = "circuit_open"
  /\ last.status = 503
  /\ last.service \in DOMAIN registry

----------------------------------------------------------------------------
(* Properties of the path rewrite                                          *)

\* what the backend reads off the request line: the path is everything up to
\* the first "?", the query parameters are what follows, split at "&"
PathOf(url) ==
  LET i == indexOf(url, <<"?">>)
  IN IF i = 0 THEN url ELSE SubSeq(url, 1, i - 1)

RECURSIVE dropAmp(_)
dropAmp(ps) ==
  IF Len(ps) = 0 THEN << >>
  ELSE IF Head(ps) = "&" THEN dropAmp(Tail(ps))
  ELSE <<Head(ps)>> \o dropAmp(Tail(ps))

QueryOf(url) ==
  LET i == indexOf(url, <<"?">>)
  IN IF i = 0 THEN << >> ELSE dropAmp(SubSeq(url, i + 1, Len(url)))

ResidualOf(q) ==
  SubSeq(q.req.path, Len(routeTable[q.entry].strip) + 1, Len(q.req.path))

\* C9: for every route and every request path strip + residual the proxy
\* forwards to forwardBase + residual under the service's url, and a request
\* to the bare prefix (with or without its trailing "/") forwards to
\* forwardBase.
C9_PathRewrite ==
  \A q \in Pending :
    PathOf(wireUrl(q.config))
      = routeTable[q.entry].forwardBase
          \o (IF ResidualOf(q) = <<"/">> THEN << >> ELSE ResidualOf(q))

\* C10: the request sent to the backend carries exactly the original query
\* parameters, each once, after the rewritten path.
C10_QueryPreserved ==
  \A q \in Pending :
    QueryOf(wireUrl(q.config)) = q.req.query

----------------------------------------------------------------------------
(* Properties of the proxy's responses and of what it records              *)

LastFailureOf(cb, s) == IF s \in DOMAIN cb THEN cb[s].lastFailure ELSE 0

\* C11 (as stated): when discovery fails the gateway answers 503 with the
\* registered service names, starts no backend call and leaves the breaker
\* record of the target service unchanged.
C11_DiscoveryFailureLeavesBreaker ==
  [][\A e \in Entries :
       (/\ routeTable[e].service \notin DOMAIN registry
        /\ ProxyStart(e, PlainReq(e))
        /\ last'.kind = "not_found")
         => /\ last'.status = 503
            /\ last'.available = DOMAIN registry
            /\ last'.calls = 0
            /\ inflight' = inflight
            /\ circuitBreakers' = circuitBreakers]_vars

\* C11 (amended): when discovery fails the gateway answers 503 with the
\* registered service names, starts no backend call and records neither a
\* failure nor a success: failure count and last-failure time are unchanged,
\* and the flags change only by the gate check's own Open -> HalfOpen move
\* when more than 30s have passed since the last failure.
C11_DiscoveryFailureRecordsNothing ==
  [][\A e \in Entries :
       (/\ routeTable[e].service \notin DOMAIN registry
        /\ ProxyStart(e, PlainReq(e))
        /\ last'.kind = "not_found")
         => LET s == routeTable[e].service
            IN /\ last'.status = 503
               /\ last'.available = DOMAIN registry
               /\ last'.calls = 0
               /\ inflight' = inflight
               /\ DOMAIN circuitBreakers' = DOMAIN circuitBreakers
               /\ \A x \in DOMAIN circuitBreakers :
                    x # s => circuitBreakers'[x] = circuitBreakers[x]
               /\ Failures(circuitBreakers', s) = Failures(circuitBreakers, s)
               /\ LastFailureOf(circuitBreakers', s) = LastFailureOf(circuitBreakers, s)
               /\ \/ circuitBreakers' = circuitBreakers
                  \/ /\ BreakerState(circuitBreakers, s) = "Open"
                     /\ BreakerState(circuitBreakers', s) = "HalfOpen"
                     /\ now - circuitBreakers[s].lastFailure > 30000]_vars

\* a discovery failure on a request that the gate had just let through as the
\* half-open probe
C11_Witness ==
  /\ last.kind = "not_found"
  /\ last.service \notin DOMAIN registry
  /\ BreakerState(circuitBreakers, last.service) = "HalfOpen"

\* C12: whenever the backend produced an HTTP response, the client receives
\* that status code and that body, below 500 and from 500 up alike.
C12_BackendResponseRelayed ==
  last.outcome = "http" =>
    /\ last.status = last.backend
    /\ last.named = "backend"
    /\ last.kind = "relay"

C12_Witness ==
  /\ last.outcome = "http"
  /\ last.backend >= 500
  /\ last.status = last.backend

\* C13: a backend call that ends in a connection failure, a timeout or a
\* status of 500 or above records exactly one failure (count + 1, last-failure
\* time = now) on the target service only; no other outcome of a proxied
\* request raises a count or moves a last-failure time.
C13_FailuresRecordedOnce ==
  [][/\ \A q \in Pending, o \in Outcomes :
          ProxyComplete(q, o) =>
            /\ \A x \in Services \ {ServiceOf(q)} :
                 /\ Failures(circuitBreakers', x) = Failures(circuitBreakers, x)
                 /\ LastFailureOf(circuitBreakers', x) = LastFailureOf(circuitBreakers, x)
            /\ IF o.type = "error" \/ o.status >= 500
               THEN /\ Failures(circuitBreakers', ServiceOf(q))
                         = Failures(circuitBreakers, ServiceOf(q)) + 1
                    /\ LastFailureOf(circuitBreakers', ServiceOf(q)) = now
               ELSE /\ Failures(circuitBreakers', ServiceOf(q))
                         <= Failures(circuitBreakers, ServiceOf(q))
                    /\ LastFailureOf(circuitBreakers', ServiceOf(q))
                         = LastFailureOf(circuitBreakers, ServiceOf(q))
     /\ \A e \in Entries :
          ProxyStart(e, PlainReq(e)) =>
            \A x \in Services :
              /\ Failures(circuitBreakers', x) = Failures(circuitBreakers, x)
              /\ LastFailureOf(circuitBreakers', x) = LastFailureOf(circuitBreakers, x)]_vars

\* a timeout recorded as the second failure, after the clock has moved
C13_Witness ==
  /\ last.outcome = "ECONNABORTED"
  /\ now > 0
  /\ Failures(circuitBreakers, last.service) = 2
  /\ LastFailureOf(circuitBreakers, last.service) = now

\* C14: every proxied call that fails at network level without a backend
\* response is answered 503 naming the service, a timeout like a refused
\* connection.
C14_TransportFailure503 ==
  last.outcome \in TransportErrors =>
    /\ last.status = 503
    /\ last.named = last.service

\* C15 (as stated): after every proxied request whose outcome is not a
\* recorded failure - rejections by the gate and by discovery included - the
\* failure count of the target service is 0.
C15_ResetUnlessFailure ==
  (\/ last.kind \in {"circuit_open", "not_found"}
   \/ (last.outcome = "http" /\ last.status < 500))
    => Failures(circuitBreakers, last.service) = 0

\* C15 (amended): a proxied request whose backend call is answered with a
\* status below 500 leaves the failure count of its target service at 0; a
\* request rejected by the gate or by discovery leaves the count as it was.
C15_ResetOnlyOnSuccess ==
  [][LET completed == BagCardinality(inflight') < BagCardinality(inflight)
         rejected == issued' = issued + 1 /\ inflight' = inflight
     IN /\ (completed /\ last'.outcome = "http" /\ last'.backend < 500)
             => Failures(circuitBreakers', last'.service) = 0
        /\ rejected
             => /\ last'.kind \in {"circuit_open", "not_found"}
                /\ Failures(circuitBreakers', last'.service)
                     = Failures(circuitBreakers, last'.service)]_vars

\* a rejection by the open gate with the count still at the threshold or above
C15_Witness ==
  /\ last.kind = "circuit_open"
  /\ Failures(circuitBreakers, last.service) >= 3

\* C17: the backend call uses the method of the original request, carries
\* every original header with its value except host and content-length
\* (Authorization included), and carries the original body exactly when the
\* method is POST, PUT or PATCH.
C17_MethodHeadersBody ==
  \A q \in Pending :
    /\ q.config.method = q.req.method
    /\ DOMAIN q.config.headers = (DOMAIN q.req.headers) \ {"host", "content-length"}
    /\ \A h \in DOMAIN q.config.headers : q.config.headers[h] = q.req.headers[h]
    /\ q.config.data = IF q.req.method \in {"POST", "PUT", "PATCH"}
                       THEN q.req.body
                       ELSE "none"

\* a PATCH with a JSON body, Authorization and content-length on its way, and
\* a DELETE whose body is left behind
C17_Witness ==
  \E q \in Pending :
    /\ q.req.body = "json"
    /\ "content-length" \in DOMAIN q.req.headers
    /\ "authorization" \in DOMAIN q.config.headers
    /\ \/ q.req.method = "PATCH" /\ q.config.data = "json"
       \/ q.req.method = "DELETE" /\ q.config.data = "none"

----------------------------------------------------------------------------
(* Properties of the backend calls and of the dashboard                    *)

\* C16: the gateway does not retry: a proxied request has at most one backend
\* call behind it, each branch of an aggregate request has at most one, and
\* the settling of a call - whatever its outcome - ends it: the proxied
\* request is answered and leaves, the branch is settled for good.
C16_NoRetries ==
  [][/\ \A q \in BagToSet(inflight') : q.calls <= 1
     /\ last'.calls <= 1
     /\ \A i \in DOMAIN agg'.branches : agg'.branches[i].calls <= 1
     /\ \A q \in Pending, o \in BreakerOutcomes :
          ProxyComplete(q, o)
            => /\ BagCardinality(inflight') = BagCardinality(inflight) - 1
               /\ last'.calls = 1
     /\ \A i \in DOMAIN agg.branches :
          (/\ agg.pc = "waiting"
           /\ agg'.pc = "waiting"
           /\ agg'.branches[i] # agg.branches[i])
            => /\ agg.branches[i].state = "pending"
               /\ agg'.branches[i].state # "pending"
               /\ agg'.branches[i].calls = agg.branches[i].calls]_vars

\* a proxied call that failed and a dashboard branch that failed, each after
\* its one call
C16_Witness ==
  /\ last.outcome = "ECONNREFUSED"
  /\ last.calls = 1
  /\ agg.pc = "done"
  /\ \E i \in DOMAIN agg.branches :
       /\ agg.branches[i].state = "rejected"
       /\ agg.branches[i].reason = "http5xx"
       /\ agg.branches[i].calls = 1

\* a branch delivered data: its call was answered with the success envelope
Delivered(b) ==
  /\ b.state = "fulfilled"
  /\ b.value.fields.success

FirstFive(xs) == SubSeq(xs, 1, IF Len(xs) < 5 THEN Len(xs) ELSE 5)

\* C18: when the dashboard's list-service call fails (discovery, connection,
\* timeout or 5xx) and both item-service calls succeed, the answer is 200 with
\* all four list totals 0 and an empty list sample, and carries the first five
\* items and the categories that item-service returned.
C18_ListsBranchFailed ==
  (/\ agg.pc = "done"
   /\ Len(agg.branches) = 3
   /\ agg.branches[1].state = "rejected"
   /\ Delivered(agg.branches[2])
   /\ Delivered(agg.branches[3]))
    => /\ agg.resp.status = 200
       /\ agg.resp.body.lists.totalLists = 0
       /\ agg.resp.body.lists.totalItems = 0
       /\ agg.resp.body.lists.purchasedItems = 0
       /\ agg.resp.body.lists.estimatedTotal = 0
       /\ agg.resp.body.lists.sample.elems = << >>
       /\ agg.resp.body.catalog.sampleItems.elems
            = FirstFive(agg.branches[2].value.fields.data.elems)
       /\ agg.resp.body.catalog.categories.elems
            = agg.branches[3].value.fields.data.elems

\* the list-service call timed out, item-service returned six items and two
\* categories
C18_Witness ==
  /\ agg.pc = "done"
  /\ Len(agg.branches) = 3
  /\ agg.branches[1].reason = "ECONNABORTED"
  /\ Delivered(agg.branches[2])
  /\ Len(agg.branches[2].value.fields.data.elems) = 6
  /\ Delivered(agg.branches[3])
  /\ Len(agg.branches[3].value.fields.data.elems) = 2
  /\ agg.resp.status = 200
  /\ Len(agg.resp.body.catalog.sampleItems.elems) = 5

\* C19: whatever the three calls of an authenticated dashboard request come
\* back with - rejected, array envelope, or error envelope without a data
\* array - the dashboard answers 200.
C19_DashboardAlways200 ==
  (agg.pc = "done" /\ agg.auth # "none") => agg.resp.status = 200

\* C20: a dashboard request without Authorization is answered 401 with no
\* registry lookup and no backend call; with the header, exactly three calls
\* are made: GET list-service /lists with limit 50 and the caller's
\* Authorization, GET item-service /items with limit 10, GET item-service
\* /categories, the last two without Authorization.
C20_DashboardCalls ==
  /\ (agg.pc = "done" /\ agg.auth = "none")
       => /\ agg.resp.status = 401
          /\ Len(agg.branches) = 0
  /\ (agg.pc \in {"waiting", "done"} /\ agg.auth # "none")
       => /\ Len(agg.branches) = 3
          /\ \A i \in 1..3 : /\ agg.branches[i].method = "GET"
                             /\ agg.branches[i].lookups = 1
                             /\ agg.branches[i].calls <= 1
          /\ agg.branches[1].service = "list-service"
          /\ agg.branches[1].path = <<"/", "l", "i", "s", "t", "s">>
          /\ agg.branches[1].params = <<"limit=50">>
          /\ DOMAIN agg.branches[1].headers = {"Authorization"}
          /\ agg.branches[1].headers["Authorization"] = agg.auth
          /\ agg.branches[2].service = "item-service"
          /\ agg.branches[2].path = <<"/", "i", "t", "e", "m", "s">>
          /\ agg.branches[2].params = <<"limit=10">>
          /\ DOMAIN agg.branches[2].headers = {}
          /\ agg.branches[3].service = "item-service"
          /\ agg.branches[3].path = <<"/", "c", "a", "t", "e", "g", "o", "r", "i", "e", "s">>
          /\ agg.branches[3].params = << >>
          /\ DOMAIN agg.branches[3].headers = {}

\* the three calls of an authenticated request, all on their way
C20_Witness ==
  /\ agg.pc = "waiting"
  /\ agg.auth = "Bearer t"
  /\ Len(agg.branches) = 3
  /\ \A i \in 1..3 : agg.branches[i].state = "pending" /\ agg.branches[i].calls = 1

----------------------------------------------------------------------------
(* Properties of the dashboard's totals                                    *)

\* what each list document is to contribute, read off the document:
\* <<totalItems, purchasedItems, estimatedTotal in thousandths>>
Contribution(l) ==
  CASE l = L1 -> <<3, 1, 12500>>
    [] l = L2 -> <<0, 0, 0>>
    [] l = L3 -> <<2, 2, 3990>>
    [] l = L4 -> <<12, 0, 1004>>
    [] l = L5 -> <<0, 0, 7000>>

RECURSIVE Total(_, _)
Total(ls, k) ==
  IF Len(ls) = 0 THEN 0 ELSE Total(SubSeq(ls, 1, Len(ls) - 1), k) + Contribution(ls[Len(ls)])[k]

\* the hundredth nearest to an amount in thousandths, as an amount in
\* thousandths
NearestHundredth(x) ==
  CHOOSE y \in 0..(x + 10) : y % 10 = 0 /\ y - 5 <= x /\ x < y + 5

\* C21: for every array of lists that list-service returns, the dashboard
\* reports totalLists = number of lists, and totalItems, purchasedItems and
\* estimatedTotal = the sums of the summary fields over all lists, a list
\* without summary and a non-numeric field counting 0, estimatedTotal rounded
\* to the hundredth.
C21_DashboardTotals ==
  (/\ agg.pc = "done"
   /\ Len(agg.branches) = 3
   /\ agg.branches[1].state = "fulfilled"
   /\ isArray(dataOrSelf(agg.branches[1].value)))
    => LET ls == agg.branches[1].value.fields.data.elems
       IN /\ agg.resp.status = 200
          /\ agg.resp.body.lists.totalLists = Len(ls)
          /\ agg.resp.body.lists.totalItems = Total(ls, 1)
          /\ agg.resp.body.lists.purchasedItems = Total(ls, 2)
          /\ agg.resp.body.lists.estimatedTotal = NearestHundredth(Total(ls, 3))

\* three lists: one with a string of digits and an amount with thousandths,
\* one without summary, one as list-service stores it; 13.504 is reported as
\* 13.50
C21_Witness ==
  /\ agg.pc = "done"
  /\ Len(agg.branches) = 3
  /\ agg.branches[1].state = "fulfilled"
  /\ agg.branches[1].value.fields.data.elems = <<L4, L2, L1>>
  /\ agg.resp.body.lists.totalLists = 3
  /\ agg.resp.body.lists.totalItems = 15
  /\ agg.resp.body.lists.purchasedItems = 1
  /\ agg.resp.body.lists.estimatedTotal = 13500

----------------------------------------------------------------------------
(* Properties of global search                                             *)

\* C22: a global-search request whose q is absent or empty is answered 400,
\* and at no moment of its handling is there a registry lookup or a backend
\* call.
C22_SearchWithoutQuery ==
  (agg.kind = "search" /\ Len(agg.q) = 0)
    => /\ agg.pc = "done"
       /\ agg.resp.status = 400
       /\ Len(agg.branches) = 0

C22_Witness ==
  /\ agg.kind = "search"
  /\ Len(agg.q) = 0
  /\ agg.resp.status = 400
  /\ agg.auth = "Bearer t"

\* C23: a global-search request with a non-empty q always makes the GET
\* item-service /search call with that q, and makes the GET list-service
\* /lists call (limit 100, the caller's Authorization) exactly when the
\* request carries Authorization; without it the answer's lists are empty
\* with total 0.
C23_SearchCalls ==
  (agg.kind = "search" /\ Len(agg.q) > 0)
    => /\ agg.pc \in {"waiting", "done"}
       /\ Len(agg.branches) = (IF agg.auth = "none" THEN 1 ELSE 2)
       /\ agg.branches[1].service = "item-service"
       /\ agg.branches[1].path = <<"/", "s", "e", "a", "r", "c", "h">>
       /\ agg.branches[1].method = "GET"
       /\ agg.branches[1].params = <<[name |-> "q", value |-> agg.q]>>
       /\ DOMAIN agg.branches[1].headers = {}
       /\ agg.auth # "none"
            => /\ agg.branches[2].service = "list-service"
               /\ agg.branches[2].path = <<"/", "l", "i", "s", "t", "s">>
               /\ agg.branches[2].method = "GET"
               /\ agg.branches[2].params = <<"limit=100">>
               /\ DOMAIN agg.branches[2].headers = {"Authorization"}
               /\ agg.branches[2].headers["Authorization"] = agg.auth
       /\ (agg.auth = "none" /\ agg.pc = "done")
            => /\ agg.resp.status = 200
               /\ agg.resp.body.lists.total = 0
               /\ agg.resp.body.lists.results.elems = << >>

\* an anonymous search answered with the items found and no lists
C23_Witness ==
  /\ agg.kind = "search"
  /\ agg.pc = "done"
  /\ agg.auth = "none"
  /\ Len(agg.branches) = 1
  /\ agg.resp.status = 200
  /\ agg.resp.body.items.total = 2
  /\ agg.resp.body.lists.total = 0

\* C24: whatever the branches of a global search with a non-empty q come
\* back with - rejected, success envelope, or error envelope without an
\* array - the search answers 200.
C24_SearchAlways200 ==
  (agg.kind = "search" /\ agg.pc = "done" /\ Len(agg.q) > 0)
    => agg.resp.status = 200

LowerOf(c) == IF c = "A" THEN "a" ELSE IF c = "B" THEN "b" ELSE c

\* t occurs in s when both are read in lower case
OccursIn(t, s) ==
  \E i \in 0..(Len(s) - Len(t)) :
    \A k \in 1..Len(t) : LowerOf(s[i + k]) = LowerOf(t[k])

\* the texts of a list: its name and the itemName of each of its items, where
\* it has them
TextsOf(l) ==
  (IF "name" \in DOMAIN l THEN {l.name} ELSE {})
    \cup (IF "items" \in DOMAIN l
          THEN {l.items[k].itemName :
                  k \in {j \in 1..Len(l.items) : "itemName" \in DOMAIN l.items[j]}}
          ELSE {})

\* C25: a list returned by list-service is among the list matches of a
\* global search exactly when the query, in lower case, occurs in the lower-
\* cased name of the list or in the lower-cased itemName of one of its items;
\* a list without name or items has no such text.
C25_ListMatches ==
  (/\ agg.kind = "search"
   /\ agg.pc = "done"
   /\ Len(agg.branches) = 2
   /\ agg.branches[2].state = "fulfilled"
   /\ isArray(dataOrSelf(agg.branches[2].value)))
    => LET ls == agg.branches[2].value.fields.data.elems
           rs == agg.resp.body.lists.results.elems
       IN /\ agg.resp.status = 200
          /\ \A k \in 1..Len(ls) :
               (\E j \in 1..Len(rs) : rs[j] = ls[k])
                 <=> (\E t \in TextsOf(ls[k]) : OccursIn(agg.q, t))
          /\ \A j \in 1..Len(rs) : \E k \in 1..Len(ls) : rs[j] = ls[k]
          /\ agg.resp.body.lists.total
               = Cardinality({k \in 1..Len(ls) :
                                \E t \in TextsOf(ls[k]) : OccursIn(agg.q, t)})

\* "AB" finds the list named "Ab"; "ba" finds a list through its item "BA"
\* and leaves out the list that has neither name nor item names
C25_Witness ==
  /\ agg.kind = "search"
  /\ agg.pc = "done"
  /\ Len(agg.branches) = 2
  /\ agg.branches[2].state = "fulfilled"
  /\ agg.resp.status = 200
  /\ \/ /\ agg.q = <<"b", "a">>
        /\ agg.branches[2].value.fields.data.elems = <<S3, S2>>
        /\ agg.resp.body.lists.results.elems = <<S2>>
     \/ /\ agg.q = <<"A", "B">>
        /\ agg.branches[2].value.fields.data.elems = <<S1, S4>>
        /\ agg.resp.body.lists.results.elems = <<S1>>

----------------------------------------------------------------------------
(* Properties of the fan-out                                               *)

\* a branch whose call has been started and has not come back, or whose
\* discovery failed on the spot
Started(b) ==
  \/ b.state = "pending" /\ b.calls = 1
  \/ b.state = "rejected" /\ b.reason = "discovery" /\ b.calls = 0

\* C26: in the step in which an aggregate request starts waiting, every one
\* of its branches has been started and none has come back; while it waits
\* no branch is added and none is started later; and the response is sent
\* only in a step that finds every branch settled.
C26_FanOut ==
  [][/\ (agg.pc # "waiting" /\ agg'.pc = "waiting")
          => /\ Len(agg'.branches)
                  = (IF agg'.kind = "dashboard" THEN 3
                     ELSE IF agg'.auth = "none" THEN 1 ELSE 2)
             /\ \A i \in DOMAIN agg'.branches : Started(agg'.branches[i])
     /\ (agg.pc = "waiting" /\ agg'.pc = "waiting")
          => /\ Len(agg'.branches) = Len(agg.branches)
             /\ \A i \in DOMAIN agg.branches :
                  /\ agg'.branches[i].calls = agg.branches[i].calls
                  /\ agg.branches[i].state # "pending"
                       => agg'.branches[i] = agg.branches[i]
             /\ agg'.resp = NoAggResponse
     /\ (agg.pc = "waiting" /\ agg'.pc = "done")
          => /\ \A i \in DOMAIN agg.branches : agg.branches[i].state # "pending"
             /\ agg'.branches = agg.branches
             /\ agg'.resp.status \in {200, 500}]_vars

\* the dashboard's item-service calls are back while its list-service call
\* is still out
C26_Witness ==
  /\ agg.pc = "waiting"
  /\ agg.kind = "dashboard"
  /\ agg.branches[1].state = "pending"
  /\ agg.branches[2].state = "fulfilled"
  /\ agg.branches[3].state = "fulfilled"
  /\ agg.resp = NoAggResponse

----------------------------------------------------------------------------
(* Properties of concurrent proxied requests                               *)

\* the number of backend calls to service s that are out
InFlightTo(bag, s) ==
  BagCardinality([q \in {x \in BagToSet(bag) : ServiceOf(x) = s} |-> bag[q]])

\* C27: failure counts and failing calls correspond one to one, also when
\* several calls to the same service are out at once: in every step the
\* count of a service either stays, or goes up by exactly 1 as exactly one
\* of its calls comes back failed, or goes to 0 as one of its calls comes
\* back below 500. So n calls that are out together and all fail, with no
\* success in between, leave the count exactly n higher.
C27_NoLostIncrements ==
  [][LET completed == BagCardinality(inflight') < BagCardinality(inflight)
     IN \A s \in Services :
          LET f == Failures(circuitBreakers, s)
              g == Failures(circuitBreakers', s)
          IN IF completed /\ last'.service = s
             THEN /\ BagCardinality(inflight') = BagCardinality(inflight) - 1
                  /\ \/ /\ g = f + 1
                        /\ last'.outcome \in TransportErrors \/ last'.backend >= 500
                     \/ /\ g = 0
                        /\ last'.kind = "relay"
                        /\ last'.backend < 500
             ELSE g = f]_vars

\* two calls went out together at a count of 2, both have failed, nothing
\* succeeded or expired in between: the count is 4
C27_Witness ==
  /\ now = 0
  /\ inflight = EmptyBag
  /\ last.outcome = "ECONNREFUSED"
  /\ Failures(circuitBreakers, last.service) = 4
  /\ issued = 4

\* C28: the gate looks at the breaker only: a request for a registered
\* service whose breaker is Closed is forwarded however many calls to that
\* service are still out.
C28_GateIgnoresCallsInFlight ==
  [][\A e \in Entries :
       (/\ issued' = issued + 1
        /\ BreakerState(circuitBreakers, routeTable[e].service) = "Closed"
        /\ discoverOk(registry, routeTable[e].service)
        /\ ProxyStart(e, PlainReq(e)))
         => /\ BagCardinality(inflight') = BagCardinality(inflight) + 1
            /\ \E q \in BagToSet(inflight') :
                 /\ q.entry = e
                 /\ CopiesIn(q, inflight') = CopiesIn(q, inflight) + 1
            /\ circuitBreakers' = circuitBreakers
            /\ last' = NoResponse]_vars

\* two failures are on record, the breaker is Closed, and two more calls to
\* the same service have passed the gate and are out: the service is being
\* reached by a third and a fourth call before its breaker opens
C28_Witness ==
  \E s \in Services :
    /\ Failures(circuitBreakers, s) = 2
    /\ BreakerState(circuitBreakers, s) = "Closed"
    /\ InFlightTo(inflight, s) >= 2
    /\ \A q \in Pending : ServiceOf(q) = s => ~q.probe

----------------------------------------------------------------------------
(* Properties of the health-check loop                                     *)

\* C29: the health-check loop never stops. The interval fires only after the
\* one-off timer has started the first round; no round is running before
\* that; and the interval keeps firing and starting rounds for ever, in every
\* behaviour - those in which rounds reject and those in which earlier rounds
\* are still running included.
C29_LoopNeverStops ==
  /\ [][health'.parity # health.parity
          => /\ health.phase \in {"first", "periodic"}
             /\ health'.running >= health.running
             /\ health'.running >= 1]_vars
  /\ [](health.phase \in {"constructed", "armed"} => health.running = 0)
  /\ []<><<IntervalTick>>_vars

\* a round has just rejected while as many rounds as the model counts are
\* still running, and the interval has fired since
C29_Witness ==
  /\ health.phase = "periodic"
  /\ health.ended = "rejected"
  /\ health.running = MaxRunning

\* C30: the healthy flag of a registered service changes only in a step of a
\* health-check round of the gateway or in a (re-)registration of the
\* service.
C30_HealthyWrittenByRoundsOnly ==
  [][\A s \in Services :
       (/\ s \in DOMAIN registry
        /\ s \in DOMAIN registry'
        /\ registry'[s].healthy # registry[s].healthy)
         => \/ \E ok \in BOOLEAN : HealthProbe(s, ok)
            \/ Register(s)]_vars

----------------------------------------------------------------------------
(* Properties of the breaker map                                           *)

\* C31: a breaker record for a service exists only after the first failure
\* recorded for that service: a step that creates a record is the completion
\* of a failed call to that service and leaves the count at 1; a gate check
\* on a service without a record creates none and does not reject the request
\* as circuit-open; a successful call on a service without a record creates
\* none; and a record once created is never removed.
C31_RecordCreatedByFirstFailure ==
  [][\A s \in Services :
       /\ s \in DOMAIN circuitBreakers => s \in DOMAIN circuitBreakers'
       /\ (s \notin DOMAIN circuitBreakers /\ s \in DOMAIN circuitBreakers') =>
            /\ last'.service = s
            /\ last'.outcome \in TransportErrors \/ last'.backend >= 500
            /\ circuitBreakers'[s].failures = 1
            /\ BagCardinality(inflight') = BagCardinality(inflight) - 1
       /\ (s \notin DOMAIN circuitBreakers /\ issued' = issued + 1) =>
            /\ s \notin DOMAIN circuitBreakers'
            /\ ~(last'.service = s /\ last'.kind = "circuit_open")
       /\ (/\ s \notin DOMAIN circuitBreakers
           /\ last'.service = s
           /\ last'.outcome = "http"
           /\ last'.backend < 500) => s \notin DOMAIN circuitBreakers']_vars

\* a call to a service without a record came back with a status below 500
\* while another service has a record
C31_Witness ==
  /\ last.outcome = "http"
  /\ last.backend < 500
  /\ last.service \in Services
  /\ last.service \notin DOMAIN circuitBreakers
  /\ circuitBreakers # << >>

----------------------------------------------------------------------------
(* Properties of list-service                                              *)

Owns(db, id, u) == id \in DOMAIN db /\ db[id].userId = u

\* the requests that name one list
OneListOps ==
  {"read", "update", "delete", "add-item", "update-item", "remove-item", "summary"}

\* a step changes or removes only lists of the user whose request it serves;
\* GET /lists answers with lists of the caller only; an add-item request is
\* let through to the item lookup only on a list of the caller
OwnListsTouched ==
  LET r == listService'.resp
  IN /\ \A id \in DOMAIN listService.db :
          (id \notin DOMAIN listService'.db \/ listService'.db[id] # listService.db[id])
            => r.user = listService.db[id].userId
     /\ (r.op = "lists" /\ r.status = 200) =>
          \A i \in DOMAIN r.data.lists : r.data.lists[i].userId = r.user
     /\ \A p \in listService'.adding :
          p.n > listService.received =>
            /\ Owns(listService.db, p.list.id, p.user)
            /\ p.list = listService.db[p.list.id]

\* C32 (as stated): a user only sees and changes their own lists: GET /lists
\* returns only lists whose userId is the caller's id, and every read,
\* update, delete, add-item, update-item, remove-item and summary request of
\* an authenticated caller on a list owned by another user (or on a missing
\* list) is answered 404 and leaves every stored list unchanged.
C32_OwnListsOnly ==
  [][listService'.received = listService.received + 1 =>
       LET r == listService'.resp
       IN /\ OwnListsTouched
          /\ (/\ r.op \in OneListOps
              /\ r.user \in Users
              /\ ~Owns(listService.db, r.id, r.user))
               => /\ r.status = 404
                  /\ listService'.db = listService.db]_vars

\* C32 (amended): as stated, except that an add-item request whose body
\* lacks itemId or quantity is answered 400 whatever list it names (the body
\* is checked before the list is read); it too leaves every stored list
\* unchanged.
C32_OwnListsOnlyOrBadRequest ==
  [][/\ OwnListsTouched
     /\ listService'.received = listService.received + 1 =>
          LET r == listService'.resp
          IN (/\ r.op \in OneListOps
              /\ r.user \in Users
              /\ ~Owns(listService.db, r.id, r.user))
               => /\ listService'.db = listService.db
                  /\ listService'.adding = listService.adding
                  /\ r.op # "add-item" => r.status = 404
                  /\ r.op = "add-item" => r.status \in {400, 404}
     /\ (/\ listService'.received = listService.received + 1
         /\ listService'.resp.op = "add-item"
         /\ listService'.resp.user \in Users
         /\ ~Owns(listService.db, listService'.resp.id, listService'.resp.user)) =>
          \A b \in AddItemBodies :
            AddItemStart(Bearer(listService'.resp.user), listService'.resp.id, b)
              => listService'.resp.status =
                   IF "itemId" \in DOMAIN b /\ b.itemId # "" /\ "quantity" \in DOMAIN b
                   THEN 404 ELSE 400]_vars

\* an add-item request without quantity on another user's list was answered
\* 400, and the other user's list holds an entry
C32_Witness ==
  LET r == listService.resp
  IN /\ r.op = "add-item"
     /\ r.status = 400
     /\ r.user \in Users
     /\ r.id \in DOMAIN listService.db
     /\ listService.db[r.id].userId # r.user
     /\ Len(listService.db[r.id].items) > 0

Purchased(items) == {i \in DOMAIN items : items[i].purchased}

\* C33: after every successful add-item, update-item or remove-item request
\* the stored list's summary has totalItems = number of entries in items and
\* purchasedItems = number of entries with purchased true; a newly created
\* list has summary (0, 0, 0) and no entries.
C33_SummaryCounts ==
  LET r == listService.resp
  IN /\ (/\ r.op \in {"add-item", "update-item", "remove-item"}
         /\ r.status \in {200, 201}
         /\ r.id \in DOMAIN listService.db) =>
          LET l == listService.db[r.id]
          IN /\ l.summary.totalItems = Len(l.items)
             /\ l.summary.purchasedItems = Cardinality(Purchased(l.items))
             /\ r.data.list = l
     /\ (r.op = "create" /\ r.status = 201) =>
          /\ r.id \in DOMAIN listService.db
          /\ listService.db[r.id] = r.data.list
          /\ r.data.list.items = << >>
          /\ r.data.list.summary.totalItems = 0
          /\ r.data.list.summary.purchasedItems = 0
          /\ r.data.list.summary.estimatedTotal = 0

\* an entry of a list with one entry has just been marked purchased
C33_Witness ==
  LET r == listService.resp
  IN /\ r.op = "update-item"
     /\ r.status = 200
     /\ r.id \in DOMAIN listService.db
     /\ Len(listService.db[r.id].items) = 1
     /\ listService.db[r.id].items[1].purchased
     /\ listService.db[r.id].summary.purchasedItems = 1

----------------------------------------------------------------------------
(* Properties of the breaker map, continued                                *)

SameRecord(s) ==
  /\ (s \in DOMAIN circuitBreakers) = (s \in DOMAIN circuitBreakers')
  /\ s \in DOMAIN circuitBreakers => circuitBreakers'[s] = circuitBreakers[s]

\* C34: breaker state is kept per service and shared by all routes of that
\* service: a call that comes back, whichever route it was proxied on, acts
\* on the record of the route's service (count + 1 on a failure, count 0 on
\* a success) and on no other; and a step changes the record of a service
\* only if it answers a proxied request for that service or forwards one.
C34_BreakerPerService ==
  [][/\ \A q \in Pending :
          CopiesIn(q, inflight') < CopiesIn(q, inflight) =>
            LET s == routeTable[q.entry].service
            IN /\ last'.service = s
               /\ Failures(circuitBreakers', s) =
                    IF last'.outcome \in TransportErrors \/ last'.backend >= 500
                    THEN Failures(circuitBreakers, s) + 1
                    ELSE 0
               /\ \A x \in Services \ {s} : SameRecord(x)
     /\ DOMAIN circuitBreakers' \subseteq Services
     /\ \A s \in Services :
          ~SameRecord(s) =>
            \/ last'.service = s
            \/ \E q \in BagToSet(inflight') :
                 /\ CopiesIn(q, inflight') > CopiesIn(q, inflight)
                 /\ routeTable[q.entry].service = s]_vars

\* the third failure in a row of user-service has just opened its breaker
\* while a call proxied on /api/users is still out, and the record of
\* item-service, which failed once, is as that failure left it
C34_Witness ==
  /\ last.service = "user-service"
  /\ last.outcome \in TransportErrors \/ last.backend >= 500
  /\ "user-service" \in DOMAIN circuitBreakers
  /\ circuitBreakers["user-service"].failures = 3
  /\ circuitBreakers["user-service"].isOpen
  /\ \E q \in Pending : q.entry = 2
  /\ "item-service" \in DOMAIN circuitBreakers
  /\ circuitBreakers["item-service"].failures = 1

\* C35: the aggregate endpoints bypass the circuit breaker: when a dashboard
\* or global-search request starts waiting, each of its calls to a registered
\* service is on its way, whatever the state of that service's breaker; and
\* no step of an aggregate request - its start, the settling of a call with
\* any outcome, its response - changes the breaker map.
C35_AggregatesBypassBreaker ==
  [][agg' # agg =>
       /\ circuitBreakers' = circuitBreakers
       /\ (agg.pc # "waiting" /\ agg'.pc = "waiting") =>
            /\ Len(agg'.branches) >= 1
            /\ \A i \in DOMAIN agg'.branches :
                 discoverOk(registry, agg'.branches[i].service) =>
                   /\ agg'.branches[i].calls = 1
                   /\ agg'.branches[i].state = "pending"]_vars

\* a global search found the breaker of list-service Open after three
\* failures, called list-service all the same, and the call timed out: the
\* record still holds three failures
C35_Witness ==
  /\ agg.kind = "search"
  /\ BreakerState(circuitBreakers, "list-service") = "Open"
  /\ circuitBreakers["list-service"].failures = 3
  /\ \E i \in DOMAIN agg.branches :
       /\ agg.branches[i].service = "list-service"
       /\ agg.branches[i].calls = 1
       /\ agg.branches[i].state = "rejected"
       /\ agg.branches[i].reason = "ECONNABORTED"

\* C36: in every reachable state each breaker record has a failure count of
\* 0 or more, never has the open and the half-open flag both set, and has a
\* failure count of at least 3 whenever one of the two flags is set; a record
\* with 1 or 2 failures is Closed and the gate lets requests through.
C36_RecordInvariant ==
  \A s \in DOMAIN circuitBreakers :
    LET b == circuitBreakers[s]
    IN /\ b.failures >= 0
       /\ ~(b.isOpen /\ b.isHalfOpen)
       /\ (b.isOpen \/ b.isHalfOpen) => b.failures >= 3
       /\ b.failures \in {1, 2} =>
            /\ BreakerState(circuitBreakers, s) = "Closed"
            /\ ~isCircuitOpen(circuitBreakers, s, now).ret

\* one service has failed twice and its breaker is Closed while another has
\* failed three times and its breaker is Open
C36_Witness ==
  \E s, t \in DOMAIN circuitBreakers :
    /\ circuitBreakers[s].failures = 2
    /\ ~circuitBreakers[s].isOpen
    /\ ~circuitBreakers[s].isHalfOpen
    /\ circuitBreakers[t].failures = 3
    /\ circuitBreakers[t].isOpen
    /\ ~circuitBreakers[t].isHalfOpen

\* C37: under every interleaving of proxied requests a breaker changes state
\* only along Closed -> Open (the third consecutive failure), Open -> HalfOpen
\* (a gate check more than 30s after the last failure), HalfOpen -> Closed (a
\* success) and HalfOpen -> Open (a failure); it never goes from Open directly
\* to Closed.
C37_TransitionsOnlyAlongEdges ==
  [][\A s \in Services :
       LET from == BreakerState(circuitBreakers, s)
           to == BreakerState(circuitBreakers', s)
           failed == /\ last'.service = s
                     /\ last'.outcome \in TransportErrors \/ last'.backend >= 500
           succeeded == /\ last'.service = s
                        /\ last'.outcome = "http"
                        /\ last'.backend < 500
       IN from # to =>
            \/ /\ from = "Closed"
               /\ to = "Open"
               /\ failed
               /\ Failures(circuitBreakers, s) = 2
               /\ Failures(circuitBreakers', s) = 3
            \/ /\ from = "Open"
               /\ to = "HalfOpen"
               /\ issued' = issued + 1
               /\ now - circuitBreakers[s].lastFailure > 30000
            \/ /\ from = "HalfOpen"
               /\ to = "Closed"
               /\ succeeded
            \/ /\ from = "HalfOpen"
               /\ to = "Open"
               /\ failed]_vars

----------------------------------------------------------------------------
(* Properties of list-service, continued                                   *)

EntriesOf(items, itemId) == {k \in DOMAIN items : items[k].itemId = itemId}

\* C38: no added item is lost under concurrency: when an add-item request is
\* answered 201 after another add-item request on the same list, in flight
\* at the same time, was answered 201, the stored list holds afterwards every
\* entry it held before and the new entry, and its summary counts one entry
\* more.
C38_NoAddedItemLost ==
  [][\A p \in listService.adding :
       (/\ \A q \in listService'.adding : q.n # p.n
        /\ listService'.resp.op = "add-item"
        /\ listService'.resp.status = 201
        /\ p.overlapped # {}
        /\ p.list.id \in DOMAIN listService.db
        /\ p.list.id \in DOMAIN listService'.db) =>
         LET before == listService.db[p.list.id]
             after == listService'.db[p.list.id]
         IN /\ \A i \in ItemIds :
                 Cardinality(EntriesOf(after.items, i)) >=
                   Cardinality(EntriesOf(before.items, i))
                     + (IF i = p.body.itemId THEN 1 ELSE 0)
            /\ after.summary.totalItems = before.summary.totalItems + 1]_vars

====
